---- MODULE Spec2Model ----
(***************************************************************************)
(* Model of the webcam crawler's record store (KietFC/CrawlDataCamera).    *)
(*                                                                         *)
(* The store is the set of JSON files "<safe_country>.json" and            *)
(* "<safe_country>_Location.json" in the working directory.  Five entry    *)
(* points write to it, each after extracting one record per URL:           *)
(*   save_results_multi.main, crawler.main, save_results.                  *)
(*   crawl_and_save_results, crawler_with_coords.main (read-merge-write)   *)
(*   and run_crawler.main --minimal (plain overwrite).                     *)
(* Extraction is abstracted to the choice of the extracted record; the     *)
(* filters, the key computation and the merge are translated from the      *)
(* code.  Records in this part of the model carry string fields only.      *)
(***************************************************************************)
EXTENDS Integers, Sequences, FiniteSets, TLC

VARIABLES
    files,      \* the key files on disk: file name -> payload
    last,       \* the most recent URL processed (history of one step)
    left,       \* number of URLs still to be processed
    writers,    \* concurrent writer processes: position, record, payload read
    doc,        \* the parsed document handed to an extractor
    out         \* what the extractor returned for it

vars == <<files, last, left, writers, doc, out>>

-----------------------------------------------------------------------------
(* Bounds *)

\* URLs processed in total, over all runs, from an empty store
MaxUrls == 3
\* longest list found in such a file
MaxLegacyLen == 2
\* longest country string handed to the key computation
MaxCountryLen == 3

-----------------------------------------------------------------------------
(* Values *)

\* Python's None, as read from a JSON null or a missing key (dict.get)
NULL == "<None>"

\* an embed URL, a YouTube watch URL, titles
EmbedA == "https://www.youtube.com/embed/A"
ContentX == "https://www.youtube.com/watch?v=X"
Titles == {"T1", "T2"}

\* Python truthiness of a string-or-None value
Truthy(v) == v # "" /\ v # NULL

\* countries are strings, modelled as sequences of characters
Unknown == <<"U", "n", "k", "n", "o", "w", "n">>
CountryVN == <<"V", " ", "N">>
Countries == {<< >>, CountryVN}

\* a stream that is not hosted by YouTube
ContentOther == "https://cdn.example.com/live.m3u8"

\* the records an extractor can return (string fields)
Records ==
    [isDict : {TRUE}, embedUrl : {"", EmbedA}, contentUrl : {"", ContentX},
     title : Titles, country : Countries]
    \cup [isDict : {TRUE}, embedUrl : {""}, contentUrl : {ContentOther},
          title : {"T1"}, country : Countries]

-----------------------------------------------------------------------------
(* Key computation *)

RECURSIVE LStrip(_)
LStrip(s) ==
    IF s # << >> /\ Head(s) = " " THEN LStrip(Tail(s)) ELSE s

RECURSIVE RStrip(_)
RStrip(s) ==
    IF s # << >> /\ s[Len(s)] = " " THEN RStrip(SubSeq(s, 1, Len(s) - 1)) ELSE s

\* str.strip()
Strip(s) == RStrip(LStrip(s))

\* str.replace(' ', '_')
ReplaceSpaces(s) == [i \in DOMAIN s |-> IF s[i] = " " THEN "_" ELSE s[i]]

\* safe_country = (data.get('country') or 'Unknown').strip().replace(' ', '_')
SafeCountry(country) ==
    ReplaceSpaces(Strip(IF country # << >> THEN country ELSE Unknown))

\* out_file = f'{safe_country}.json'
PlainFile(country) == SafeCountry(country) \o <<".json">>

\* out_file = f'{safe_country}_Location.json'
LocationFile(country) == SafeCountry(country) \o <<"_Location", ".json">>

-----------------------------------------------------------------------------
(* Payloads: what a key file holds *)

Absent == [kind |-> "absent", items |-> << >>]    \* no such file
Corrupt == [kind |-> "corrupt", items |-> << >>]  \* json.load raises
Scalar == [kind |-> "scalar", items |-> << >>]    \* a JSON number, string, null
EmptyObj == [kind |-> "dict", items |-> << >>]    \* {}
\* the file exists and open(filename, 'r') raises
Unreadable == [kind |-> "unreadable", items |-> << >>]
DictOf(obj) == [kind |-> "dict", items |-> <<obj>>]
ListOf(items) == [kind |-> "list", items |-> items]

\* Path(out_file).exists() and the content read
Lookup(f) == IF f \in DOMAIN files THEN files[f] ELSE Absent

\* write_text / json.dump: the payload replaces the file's content
Written(f, p) ==
    [g \in DOMAIN files \cup {f} |-> IF g = f THEN p ELSE files[g]]

\* item.get('embedUrl') or item.get('contentUrl')
HasUrl(it) == Truthy(it.embedUrl) \/ Truthy(it.contentUrl)

\* (item.get('embedUrl'), item.get('title'))
Pair(it) == <<it.embedUrl, it.title>>

\* a list element that is not a JSON object (isinstance(it, dict) is false)
NonDictItem ==
    [isDict |-> FALSE, embedUrl |-> NULL, contentUrl |-> NULL, title |-> NULL,
     country |-> << >>]

-----------------------------------------------------------------------------
(* The merge of the read-merge-write entry points *)

\* isinstance(it, dict) and (it.get('embedUrl') or it.get('contentUrl'))
Keep(it) == it.isDict /\ HasUrl(it)

\* existing = [it for it in existing if ...]: "Remove old entries without URL"
PruneList(items) == SelectSeq(items, Keep)

\* keys = {(item.get('embedUrl'), item.get('title')) for item in existing
\*         if isinstance(item, dict)}
Keys(items) == {Pair(items[i]) : i \in {j \in DOMAIN items : items[j].isDict}}

\* a faulty variant: the record is appended whether or not its pair is known
AppendsToListAlways(items, data) == HasUrl(data)

\* if (data.get('embedUrl'), data.get('title')) not in keys
\*    and (data.get('embedUrl') or data.get('contentUrl')):
AppendsToList(items, data) == Pair(data) \notin Keys(items) /\ HasUrl(data)

\* the list branch: existing.append(data) under the condition above
MergeList(items, data) ==
    IF AppendsToList(items, data) THEN Append(items, data) ELSE items

\* a faulty variant: the record is appended next to a stored object with its pair
AppendsToDictAlways(existing, data) == HasUrl(data)

\* if (data URL) and not (existing.get('embedUrl') == data.get('embedUrl')
\*                        and existing.get('title') == data.get('title')):
AppendsToDict(existing, data) ==
    HasUrl(data)
    /\ ~(existing.embedUrl = data.embedUrl /\ existing.title = data.title)

\* the dict branch: merged = [existing] if existing has a URL else [], then
\* merged.append(data) under the condition above
MergeDict(existing, data) ==
    LET base == IF HasUrl(existing) THEN <<existing>> ELSE << >>
    IN  IF AppendsToDict(existing, data) THEN Append(base, data) ELSE base

\* a faulty variant: an unparseable file makes the merge give up and store nothing
MergeElseEmpty(data) == << >>

\* the else branch (existing is None, {}, or a scalar): merged = [data]
MergeElse(data) == <<data>>

\* the value of merged, for an existing file with payload p; prune tells
\* whether the list branch filters the existing entries first
Merged(p, data, prune) ==
    CASE p.kind = "list" ->
            MergeList(IF prune THEN PruneList(p.items) ELSE p.items, data)
      [] p.kind = "dict" /\ p.items # << >> ->
            MergeDict(p.items[1], data)
      [] OTHER -> MergeElse(data)

\* whether the merge executed an append of data (or made it the only entry)
Appended(p, data, prune) ==
    CASE p.kind = "list" ->
            AppendsToList(IF prune THEN PruneList(p.items) ELSE p.items, data)
      [] p.kind = "dict" /\ p.items # << >> ->
            AppendsToDict(p.items[1], data)
      [] OTHER -> TRUE

\* a faulty variant: a new key file is started as a list holding data twice
StoredTwice(p, data, prune) ==
    IF p.kind # "absent"
    THEN ListOf(Merged(p, data, prune))
    ELSE ListOf(<<data, data>>)

\* what the read-merge-write cycle writes: the merged list when the file
\* exists, the bare record (a single JSON object) when it does not
Stored(p, data, prune) ==
    IF p.kind # "absent"
    THEN ListOf(Merged(p, data, prune))
    ELSE DictOf(data)

\* save_results.crawl_and_save_results opens the file outside the inner try:
\* when the open raises, the outer except writes the bare record
StoredSingle(p, data) ==
    IF p.kind = "unreadable" THEN DictOf(data) ELSE Stored(p, data, TRUE)

-----------------------------------------------------------------------------
(* The entry points: one action processes one URL *)

\* host = urlparse(content_url).netloc.lower();
\* any(d in host for d in ['youtube.com', 'youtu.be', 'youtube-nocookie.com'])
IsYouTube(url) == url \in {ContentX}

\* the entry points whose store write is a read-merge-write cycle
MergingEntryPoints == {"multi", "crawler", "single", "coords"}

\* no URL processed yet / no record extracted
NoStep ==
    [ep |-> "none", rec |-> NonDictItem, file |-> << >>, pre |-> Absent,
     wrote |-> FALSE, appended |-> FALSE, fresh |-> FALSE, repeat |-> FALSE]

\* the entries a payload holds
EntriesOf(p) == p.items

HasPair(p, pr) == \E i \in DOMAIN EntriesOf(p) : Pair(EntriesOf(p)[i]) = pr

\* the URL is skipped: nothing is written
Skip(ep, data) ==
    /\ files' = files
    /\ last' = [NoStep EXCEPT !.ep = ep, !.rec = data]
    /\ left' = left - 1
    /\ UNCHANGED <<writers, doc, out>>

\* payload p is written to file f; fresh and repeat record whether the file
\* held no entry with the record's pair, and whether this step repeats the
\* previous one (same record, same file, which was fresh then)
Save(ep, data, f, p, app) ==
    /\ files' = Written(f, p)
    /\ last' = [ep |-> ep, rec |-> data, file |-> f, pre |-> Lookup(f),
                wrote |-> TRUE, appended |-> app,
                fresh |-> ~HasPair(Lookup(f), Pair(data)),
                repeat |-> /\ last.wrote /\ last.fresh
                           /\ last.rec = data /\ last.file = f
                           /\ last.ep \in MergingEntryPoints]
    /\ left' = left - 1
    /\ UNCHANGED <<writers, doc, out>>

\* save_results_multi.main, one iteration of "for url in urls": a record
\* without URL is skipped, any other is merged into its country's file
MultiMain(recs) ==
    /\ left > 0
    /\ \E data \in recs :
        IF ~HasUrl(data)
        THEN Skip("multi", data)
        ELSE LET f == PlainFile(data.country)
             IN  Save("multi", data, f, Stored(Lookup(f), data, TRUE),
                      Appended(Lookup(f), data, TRUE))

\* crawler.main, one iteration of "for url in urls"; the except branch that
\* rewrites the file with the bare record is not taken, as the merge of
\* string-valued records does not raise
CrawlerMain(recs) ==
    /\ left > 0
    /\ \E data \in recs :
        IF ~Truthy(data.contentUrl) \/ ~IsYouTube(data.contentUrl)
        THEN Skip("crawler", data)
        ELSE LET f == PlainFile(data.country)
             IN  Save("crawler", data, f, Stored(Lookup(f), data, TRUE),
                      Appended(Lookup(f), data, TRUE))

\* save_results.crawl_and_save_results, the single URL of one run
SaveResults(recs) ==
    /\ left > 0
    /\ \E data \in recs :
        IF ~HasUrl(data)
        THEN Skip("single", data)
        ELSE LET f == PlainFile(data.country)
             IN  Save("single", data, f, StoredSingle(Lookup(f), data),
                      Appended(Lookup(f), data, TRUE))

\* crawler_with_coords.main, one iteration: a URL with a bad scheme or whose
\* extraction raises is skipped before any record exists
CoordsMain(recs) ==
    /\ left > 0
    /\ \/ Skip("coords", NonDictItem)
       \/ \E data \in recs :
            IF ~Truthy(data.contentUrl) \/ ~IsYouTube(data.contentUrl)
            THEN Skip("coords", data)
            ELSE LET f == LocationFile(data.country)
                 IN  Save("coords", data, f, Stored(Lookup(f), data, FALSE),
                          Appended(Lookup(f), data, FALSE))

\* run_crawler.main --minimal, one iteration: the record is written as it is
RunCrawlerMain(recs) ==
    /\ left > 0
    /\ \E data \in recs :
        Save("run", data, PlainFile(data.country), DictOf(data), TRUE)

-----------------------------------------------------------------------------
(* Specifications *)

NoWriters == << >>

\* the store part of the model extracts nothing: no document, no result
NoDoc == [kind |-> "none"]
NoOut == [ex |-> "none"]

\* the store is empty before the first run
Init ==
    /\ files = << >>
    /\ last = NoStep
    /\ left = MaxUrls
    /\ writers = NoWriters
    /\ doc = NoDoc
    /\ out = NoOut

Next ==
    \/ MultiMain(Records)
    \/ CrawlerMain(Records)
    \/ SaveResults(Records)
    \/ CoordsMain(Records)
    \/ RunCrawlerMain(Records)

Spec == Init /\ [][Next]_vars

-----------------------------------------------------------------------------
(* One merge into a file left by an earlier version or another tool *)

SeqsUpTo(S, k) == UNION {[1..m -> S] : m \in 0..k}

\* what such a file's objects can look like: a URL field may be missing (None)
LegacyItems ==
    [isDict : {TRUE}, embedUrl : {"", NULL, EmbedA}, contentUrl : {"", ContentX},
     title : Titles, country : {CountryVN}] \cup {NonDictItem}

LegacyPayloads ==
    {Corrupt, Scalar, EmptyObj, Unreadable}
    \cup {DictOf(o) : o \in LegacyItems \ {NonDictItem}}
    \cup {ListOf(l) : l \in SeqsUpTo(LegacyItems, MaxLegacyLen)}

LegacyFiles == {PlainFile(CountryVN), LocationFile(CountryVN)}

\* one key file holds an arbitrary payload, and one URL is processed
InitLegacy ==
    /\ \E f \in LegacyFiles, p \in LegacyPayloads : files = (f :> p)
    /\ last = NoStep
    /\ left = 1
    /\ writers = NoWriters
    /\ doc = NoDoc
    /\ out = NoOut

SpecLegacy == InitLegacy /\ [][Next]_vars

-----------------------------------------------------------------------------
(* The key computation on arbitrary country strings *)

Alphabet == {"a", " ", "'"}

KeyCountries == SeqsUpTo(Alphabet, MaxCountryLen)

KeyRecords ==
    [isDict : {TRUE}, embedUrl : {EmbedA}, contentUrl : {ContentX},
     title : {"T1"}, country : KeyCountries]

InitKey ==
    /\ files = << >>
    /\ last = NoStep
    /\ left = 1
    /\ writers = NoWriters
    /\ doc = NoDoc
    /\ out = NoOut

NextKey ==
    \/ MultiMain(KeyRecords)
    \/ CrawlerMain(KeyRecords)
    \/ SaveResults(KeyRecords)
    \/ CoordsMain(KeyRecords)
    \/ RunCrawlerMain(KeyRecords)

SpecKey == InitKey /\ [][NextKey]_vars

-----------------------------------------------------------------------------
(* Two processes run the read-merge-write cycle on the same key file *)

Writers == {1, 2}

ConcFile == PlainFile(CountryVN)

ConcRecords == {r \in Records : r.country = CountryVN /\ HasUrl(r)}

\* a writer that has not read yet
Fresh(r) == [pc |-> "start", rec |-> r, rd |-> Absent, stale |-> FALSE]

\* the key file is absent or holds the single object that one earlier URL left
\* (a first merge, or run_crawler.main); the two writers hold different records
InitConc ==
    /\ \/ files = << >>
       \/ \E r \in Records : r.country = CountryVN /\ files = (ConcFile :> DictOf(r))
    /\ \E r1, r2 \in ConcRecords :
        /\ r1 # r2
        /\ writers = (1 :> Fresh(r1)) @@ (2 :> Fresh(r2))
    /\ last = NoStep
    /\ left = 0
    /\ doc = NoDoc
    /\ out = NoOut

\* if Path(out_file).exists(): existing = json.loads(read_text())
WriterRead(w) ==
    /\ writers[w].pc = "start"
    /\ writers' = [writers EXCEPT ![w].pc = "read", ![w].rd = Lookup(ConcFile)]
    /\ UNCHANGED <<files, last, left, doc, out>>

\* the merge of what was read, and write_text of the result; a writer that
\* has read and not yet written now holds a stale copy
WriterWrite(w) ==
    /\ writers[w].pc = "read"
    /\ files' = Written(ConcFile, Stored(writers[w].rd, writers[w].rec, TRUE))
    /\ writers' =
        [v \in Writers |->
            IF v = w THEN [writers[v] EXCEPT !.pc = "done"]
            ELSE IF writers[v].pc = "read"
                 THEN [writers[v] EXCEPT !.stale = TRUE]
                 ELSE writers[v]]
    /\ UNCHANGED <<last, left, doc, out>>

NextConc == \E w \in Writers : WriterRead(w) \/ WriterWrite(w)

SpecConc == InitConc /\ [][NextConc]_vars

-----------------------------------------------------------------------------
(* Helpers of the properties *)

\* the payload now stored in the file of the last step
Post == Lookup(last.file)

\* the last step ran a read-merge-write cycle
Merging == last.wrote /\ last.ep \in MergingEntryPoints

\* how many stored entries carry the pair pr
CountPair(p, pr) ==
    Cardinality({i \in DOMAIN EntriesOf(p) : Pair(EntriesOf(p)[i]) = pr})

\* the entries of a payload that have a URL, in their order
Survivors(p) ==
    SelectSeq(EntriesOf(p), LAMBDA it : it.isDict /\ HasUrl(it))

PairsOf(items) == {Pair(items[i]) : i \in DOMAIN items}

\* whether the list branch of an entry point filters the existing entries
\* (crawler_with_coords.main builds keys from the list as read)
PrunesList(ep) == ep # "coords"

\* the file name without its ".json" or "_Location.json"
KeyOfLast ==
    SubSeq(last.file, 1,
           Len(last.file) - (IF last.ep = "coords" THEN 2 ELSE 1))

\* the alphanumeric characters among those the model's countries use
IsAlnum(c) == c \in {"a", "V", "N", "U", "n", "k", "o", "w"}

\* the key as documented: every non-alphanumeric character becomes "_"
Sanitized(country) ==
    IF country = << >>
    THEN Unknown
    ELSE [i \in DOMAIN country |->
            IF IsAlnum(country[i]) THEN country[i] ELSE "_"]

-----------------------------------------------------------------------------
(* Properties *)

C2_MergePersists ==
    (Merging /\ HasUrl(last.rec)) => HasPair(Post, Pair(last.rec))

\* C3: a record is written to a key file only if it has an embedUrl or a
\* contentUrl, in every entry point.
C3_OnlyPersistableWritten ==
    last.wrote => HasUrl(last.rec)

C5_UniquePairs ==
    \A f \in DOMAIN files :
        \A i, j \in DOMAIN EntriesOf(files[f]) :
            Pair(EntriesOf(files[f])[i]) = Pair(EntriesOf(files[f])[j]) => i = j

\* C5 happens: a merge found the record's pair in a list of two and added nothing
C5_Witness ==
    /\ Merging /\ ~last.appended
    /\ Post.kind = "list" /\ Len(Post.items) = 2
    /\ last.pre.kind = "list"

\* C6: after a merge, the key's collection holds no object that lacks both
\* embedUrl and contentUrl.
C6_PrunedOnMerge ==
    Merging =>
        \A i \in DOMAIN EntriesOf(Post) :
            EntriesOf(Post)[i].isDict => HasUrl(EntriesOf(Post)[i])

\* C8: when the existing file cannot be read or parsed, the merge writes (no
\* error) and the key then holds exactly the new record, as a list when the
\* file was read and did not parse.
C8_Tolerance ==
    (Merging /\ last.pre.kind \in {"corrupt", "unreadable"}) =>
        /\ EntriesOf(Post) = <<last.rec>>
        /\ last.pre.kind = "corrupt" => Post = ListOf(<<last.rec>>)

\* C8 happens: a merge into a file that did not parse
C8_Witness ==
    Merging /\ last.pre = Corrupt /\ Post = ListOf(<<last.rec>>)

\* C9: a single stored object is merged as the one-element list holding it:
\* the result is the list that the same merge gives for [object].
C9_ShapeNormalization ==
    (Merging /\ last.pre.kind = "dict" /\ last.pre.items # << >>) =>
        Post = Stored(ListOf(last.pre.items), last.rec, PrunesList(last.ep))

\* C10: the key is the country with every non-alphanumeric character replaced
\* by "_", "Unknown" for the empty country; so it is not empty and holds only
\* alphanumeric characters and "_".
C10_KeySanitized ==
    last.wrote =>
        /\ KeyOfLast = Sanitized(last.rec.country)
        /\ KeyOfLast # << >>
        /\ \A i \in DOMAIN KeyOfLast :
             IsAlnum(KeyOfLast[i]) \/ KeyOfLast[i] = "_"

\* both writers have written
AllDone == writers # NoWriters /\ \A w \in Writers : writers[w].pc = "done"

\* no writer wrote from a copy that another writer had replaced meanwhile
Serialized == \A w \in Writers : ~writers[w].stale

\* C7: when the two cycles run one after the other, both records are in the
\* stored collection at the end (a lost update needs interleaved cycles).
C7_SerializedKeepsBoth ==
    (AllDone /\ Serialized) =>
        \A w \in Writers : HasPair(Lookup(ConcFile), Pair(writers[w].rec))

\* C7, the lost update: from an absent file, the cycles interleave and one of
\* the two records is missing at the end
C7_LostUpdate ==
    /\ AllDone /\ ~Serialized
    /\ \E w \in Writers :
        /\ writers[w].rd = Absent
        /\ ~HasPair(Lookup(ConcFile), Pair(writers[w].rec))

\* serialized cycles keep both records when the file held no entry without URL
SerializedKeepsBothOverUrls ==
    (AllDone /\ Serialized
     /\ \A w \in Writers :
          writers[w].rd.kind = "dict" => HasUrl(writers[w].rd.items[1])) =>
        \A w \in Writers : HasPair(Lookup(ConcFile), Pair(writers[w].rec))

-----------------------------------------------------------------------------
(* The structured data harvester: embedUrl, contentUrl and thumbnailUrl of   *)
(* one parsed document.  A string is the sequence of its pieces, so that     *)
(* the substring tests and the splits of the code are computed on it.        *)

\* blocks of structured data in a document, objects flattened in the order
\* the traversals visit them (an object, then the members of its @graph)
MaxLdObjects == 1
\* iframe elements in a document
MaxIframes == 1

Scheme == "https:"
YtHost == "//www.youtube.com"
ImgHost == "//img.example"
EmbedSeg == "/embed/"
WatchSeg == "/watch?v="
QueryMark == "?"

AbsEmbed(id) == <<Scheme, YtHost, EmbedSeg, id>>
HostRelEmbed(id) == <<YtHost, EmbedSeg, id, QueryMark, "rel=0">>
Watch(id) == <<Scheme, YtHost, WatchSeg, id>>
Thumb(name) == <<Scheme, ImgHost, name>>
RelThumb(name) == <<name>>

\* JSON / Python values: a string, null (None), a list of strings, and the
\* absence of the key from an object
PyStr(s) == [t |-> "str", v |-> s]
PyNone == [t |-> "null"]
PyList(l) == [t |-> "list", v |-> l]
NoKey == [t |-> "missing"]
EmptyStr == PyStr(<< >>)

\* bool(v)
Truth(v) == v.t \in {"str", "list"} /\ Len(v.v) > 0

\* a or b
OrElse(a, b) == IF Truth(a) THEN a ELSE b

\* obj.get(key) and obj.get(key, default)
Get(v) == IF v = NoKey THEN PyNone ELSE v
GetOr(v, default) == IF v = NoKey THEN default ELSE v

\* tok in s
Contains(s, tok) == \E i \in DOMAIN s : s[i] = tok

\* 'youtube.com' in src or 'youtu.be' in src or 'youtube-nocookie.com' in src
IsYouTubeSrc(s) == Contains(s, YtHost)

\* s.split(tok)[-1]
AfterLast(s, tok) ==
    IF ~Contains(s, tok) THEN s
    ELSE LET i == CHOOSE j \in DOMAIN s :
                    s[j] = tok /\ \A k \in DOMAIN s : s[k] = tok => k <= j
         IN SubSeq(s, i + 1, Len(s))

\* s.split(tok)[0]
BeforeFirst(s, tok) ==
    IF ~Contains(s, tok) THEN s
    ELSE LET i == CHOOSE j \in DOMAIN s :
                    s[j] = tok /\ \A k \in DOMAIN s : s[k] = tok => j <= k
         IN SubSeq(s, 1, i - 1)

\* f'https://www.youtube.com/watch?v={video_id}' with
\* video_id = src.split('/embed/')[-1].split('?')[0]
WatchOfEmbed(src) ==
    <<Scheme, YtHost, WatchSeg>> \o BeforeFirst(AfterLast(src, EmbedSeg), QueryMark)

\* the three fields of a structured-data object or of a script's text
NoFields == [embedUrl |-> NoKey, contentUrl |-> NoKey, thumbnailUrl |-> NoKey]

\* structured-data objects found in a page: each key may be missing, and
\* embedUrl may be null, thumbnailUrl a string or a list of strings
LdObjects ==
    [embedUrl : {NoKey, PyNone, PyStr(AbsEmbed("ID1"))},
     contentUrl : {NoKey, PyStr(Watch("ID1"))},
     thumbnailUrl : {NoKey, PyStr(Thumb("/t1.jpg")),
                     PyList(<<Thumb("/t1.jpg"), Thumb("/t2.jpg")>>)}]

\* iframe src attributes: absolute and host-relative player addresses
IframeSrcs == {AbsEmbed("ID2"), HostRelEmbed("ID2")}

\* an inline script whose text holds  embedUrl: "..."
InlineScripts == {[NoFields EXCEPT !.embedUrl = PyStr(AbsEmbed("ID3"))]}

\* og:video, og:image and twitter:image meta tags (PyNone: no such tag)
MetaVideos == {PyNone, PyStr(AbsEmbed("ID4"))}
MetaImages ==
    {[og |-> PyNone, tw |-> PyNone],
     [og |-> PyStr(Thumb("/og.jpg")), tw |-> PyNone],
     [og |-> PyStr(RelThumb("/og.jpg")), tw |-> PyStr(Thumb("/tw.jpg"))],
     [og |-> PyNone, tw |-> PyStr(Thumb("/tw.jpg"))]}

\* the part of BeautifulSoup(driver.page_source) that the harvesters look
\* at.  Each structured-data object is a block of its own, and the blocks
\* precede the inline scripts in the page.
HarvestParts ==
    [ld : SeqsUpTo(LdObjects, MaxLdObjects),
     metaVideo : MetaVideos,
     iframes : SeqsUpTo(IframeSrcs, MaxIframes),
     inline : SeqsUpTo(InlineScripts, 1),
     image : MetaImages]

\* a page without any video or image signal
PlainHarvest ==
    [ld |-> << >>, metaVideo |-> PyNone, iframes |-> << >>, inline |-> << >>,
     image |-> [og |-> PyNone, tw |-> PyNone]]

\* thumb[0] of a list, the string itself otherwise
FirstOf(v) == IF v.t = "list" /\ Len(v.v) > 0 THEN PyStr(v.v[1]) ELSE v

\* the first iframe at or after position i that points at the video host
RECURSIVE FirstYouTube(_, _)
FirstYouTube(frames, i) ==
    IF i > Len(frames) THEN 0
    ELSE IF IsYouTubeSrc(frames[i]) THEN i
    ELSE FirstYouTube(frames, i + 1)

\* og:image content if it has one, else twitter:image content, else nothing
MetaThumb(image) ==
    IF Truth(image.og) THEN image.og
    ELSE IF Truth(image.tw) THEN image.tw
    ELSE PyNone

\* "if not thumb:" followed by the two meta lookups
ThumbFallback(thumb, image) ==
    IF Truth(thumb) \/ MetaThumb(image) = PyNone THEN thumb ELSE MetaThumb(image)

\* save_results_multi.extract_minimal._harvest over the objects i..Len(ld)
RECURSIVE MultiHarvestLd(_, _, _)
MultiHarvestLd(ld, i, acc) ==
    IF i > Len(ld) THEN acc
    ELSE LET obj == ld[i]
             tu == Get(obj.thumbnailUrl)
         IN MultiHarvestLd(ld, i + 1,
                [embedUrl |-> OrElse(acc.embedUrl, GetOr(obj.embedUrl, EmptyStr)),
                 contentUrl |-> OrElse(acc.contentUrl, GetOr(obj.contentUrl, EmptyStr)),
                 thumbnailUrl |->
                    IF tu.t = "list"
                    THEN IF Len(tu.v) > 0 THEN OrElse(acc.thumbnailUrl, FirstOf(tu))
                         ELSE acc.thumbnailUrl
                    ELSE IF tu.t = "str" THEN OrElse(acc.thumbnailUrl, tu)
                    ELSE acc.thumbnailUrl])

\* "if not embed or not content:" the first video iframe fills what is missing
MultiIframes(acc, frames) ==
    LET k == FirstYouTube(frames, 1) IN
    IF (Truth(acc.embedUrl) /\ Truth(acc.contentUrl)) \/ k = 0 THEN acc
    ELSE [acc EXCEPT
            !.embedUrl = IF Truth(acc.embedUrl) THEN @ ELSE PyStr(frames[k]),
            !.contentUrl = IF Contains(frames[k], EmbedSeg) /\ ~Truth(@)
                           THEN PyStr(WatchOfEmbed(frames[k])) ELSE @]

AllEmpty == [embedUrl |-> EmptyStr, contentUrl |-> EmptyStr, thumbnailUrl |-> EmptyStr]

\* save_results_multi.extract_minimal, the three URL fields of its result
MultiHarvest(d) ==
    LET a == MultiIframes(MultiHarvestLd(d.ld, 1, AllEmpty), d.iframes)
    IN [a EXCEPT !.thumbnailUrl = ThumbFallback(@, d.image)]

\* crawler.extract_minimal._harvest_from_obj over the objects i..Len(ld);
\* acc is youtube_streams, NoKey standing for a key not in the dict
RECURSIVE MinimalHarvestLd(_, _, _)
MinimalHarvestLd(ld, i, acc) ==
    IF i > Len(ld) THEN acc
    ELSE LET embed == Get(ld[i].embedUrl)
             content == Get(ld[i].contentUrl)
             thumb == Get(ld[i].thumbnailUrl)
         IN MinimalHarvestLd(ld, i + 1,
                [embedUrl |-> IF Truth(embed) /\ acc.embedUrl = NoKey
                              THEN embed ELSE acc.embedUrl,
                 contentUrl |-> IF Truth(content) /\ acc.contentUrl = NoKey
                                THEN content ELSE acc.contentUrl,
                 thumbnailUrl |-> IF Truth(thumb) /\ acc.thumbnailUrl = NoKey
                                  THEN FirstOf(thumb) ELSE acc.thumbnailUrl])

\* "for iframe in iframes:" every video iframe fills the keys still missing
RECURSIVE MinimalIframes(_, _, _)
MinimalIframes(frames, i, acc) ==
    IF i > Len(frames) THEN acc
    ELSE IF ~IsYouTubeSrc(frames[i]) THEN MinimalIframes(frames, i + 1, acc)
    ELSE MinimalIframes(frames, i + 1,
            [acc EXCEPT
                !.embedUrl = IF @ = NoKey THEN PyStr(frames[i]) ELSE @,
                !.contentUrl = IF Contains(frames[i], EmbedSeg) /\ @ = NoKey
                               THEN PyStr(WatchOfEmbed(frames[i])) ELSE @])

\* crawler.extract_minimal, the three URL fields of minimal_result
\* (save_results.crawl_and_save_results holds the same code)
MinimalHarvest(d) ==
    LET a == MinimalIframes(d.iframes, 1, MinimalHarvestLd(d.ld, 1, NoFields))
        t == IF ~Truth(Get(a.thumbnailUrl)) /\ MetaThumb(d.image) # PyNone
             THEN MetaThumb(d.image) ELSE a.thumbnailUrl
    IN [embedUrl |-> GetOr(a.embedUrl, EmptyStr),
        contentUrl |-> GetOr(a.contentUrl, EmptyStr),
        thumbnailUrl |-> GetOr(t, EmptyStr)]

\* crawler_with_coords.extract_minimal_with_coords.harvest over i..Len(ld)
RECURSIVE CoordsHarvestLd(_, _, _)
CoordsHarvestLd(ld, i, acc) ==
    IF i > Len(ld) THEN acc
    ELSE LET tu == Get(ld[i].thumbnailUrl) IN
         CoordsHarvestLd(ld, i + 1,
            [embedUrl |-> IF ~Truth(acc.embedUrl) /\ Truth(Get(ld[i].embedUrl))
                          THEN Get(ld[i].embedUrl) ELSE acc.embedUrl,
             contentUrl |-> IF ~Truth(acc.contentUrl) /\ Truth(Get(ld[i].contentUrl))
                            THEN Get(ld[i].contentUrl) ELSE acc.contentUrl,
             thumbnailUrl |->
                IF tu.t = "list" /\ Len(tu.v) > 0
                THEN OrElse(acc.thumbnailUrl, FirstOf(tu))
                ELSE IF tu.t = "str" THEN OrElse(acc.thumbnailUrl, tu)
                ELSE acc.thumbnailUrl])

\* crawler_with_coords.extract_minimal_with_coords, the three URL fields:
\* structured data, then the thumbnail meta tags; iframes are not read
CoordsHarvest(d) ==
    LET a == CoordsHarvestLd(d.ld, 1, AllEmpty)
    IN [a EXCEPT !.thumbnailUrl = ThumbFallback(@, d.image)]

UrlFields == {"embedUrl", "contentUrl", "thumbnailUrl"}

\* a.update(b) on dicts with the three keys
Update(a, b) == [k \in UrlFields |-> IF b[k] # NoKey THEN b[k] ELSE a[k]]

\* WebcamCrawler.extract_from_json_ld over the objects i..Len(ld): every key
\* that is present is copied as it is, a later object replacing an earlier
RECURSIVE InfoLd(_, _, _)
InfoLd(ld, i, acc) ==
    IF i > Len(ld) THEN acc ELSE InfoLd(ld, i + 1, Update(acc, ld[i]))

\* WebcamCrawler.extract_youtube_meta_tags
InfoMeta(mv) ==
    IF ~(Truth(mv) /\ Contains(mv.v, YtHost)) THEN NoFields
    ELSE IF Contains(mv.v, EmbedSeg) THEN [NoFields EXCEPT !.embedUrl = mv]
    ELSE [NoFields EXCEPT !.contentUrl = mv]

\* WebcamCrawler.extract_youtube_iframes: the last video iframe wins
RECURSIVE InfoIframes(_, _, _)
InfoIframes(frames, i, acc) ==
    IF i > Len(frames) THEN acc
    ELSE IF ~IsYouTubeSrc(frames[i]) THEN InfoIframes(frames, i + 1, acc)
    ELSE InfoIframes(frames, i + 1,
            [acc EXCEPT
                !.embedUrl = PyStr(frames[i]),
                !.contentUrl = IF Contains(frames[i], EmbedSeg)
                               THEN PyStr(WatchOfEmbed(frames[i])) ELSE @])

\* the quoted strings of a script's text, in the order of the text
StrsOf(v) == IF v.t = "str" THEN <<v.v>> ELSE IF v.t = "list" THEN v.v ELSE << >>
Strings(obj) == StrsOf(obj.embedUrl) \o StrsOf(obj.contentUrl) \o StrsOf(obj.thumbnailUrl)

\* the first match of  youtube\.com/watch\?v=(id)  or  youtube\.com/embed/(id)
\* in the strings i..Len(strs); "" when there is none
RECURSIVE FirstFrag(_, _, _)
FirstFrag(strs, i, seg) ==
    IF i > Len(strs) THEN ""
    ELSE LET s == strs[i]
             at == {j \in 1..(Len(s) - 2) : s[j] = YtHost /\ s[j + 1] = seg}
         IN IF at = {} THEN FirstFrag(strs, i + 1, seg)
            ELSE s[(CHOOSE j \in at : \A k \in at : j <= k) + 2]

\* patterns 3 and 5: "if 'embedUrl' not in script_info", likewise contentUrl
FillFromId(info, id) ==
    IF id = "" THEN info
    ELSE [info EXCEPT !.embedUrl = IF @ = NoKey THEN PyStr(AbsEmbed(id)) ELSE @,
                      !.contentUrl = IF @ = NoKey THEN PyStr(Watch(id)) ELSE @]

\* patterns 0..2 match  key: "value"  with a non-empty quoted value
Quoted(obj) == [k \in UrlFields |-> IF obj[k].t = "str" /\ Truth(obj[k]) THEN obj[k] ELSE NoKey]

\* WebcamCrawler.extract_youtube_from_scripts over the scripts i..Len(scripts)
RECURSIVE InfoScripts(_, _, _)
InfoScripts(scripts, i, info) ==
    IF i > Len(scripts) THEN info
    ELSE LET named == Update(info, Quoted(scripts[i]))
             watched == FillFromId(named, FirstFrag(Strings(scripts[i]), 1, WatchSeg))
         IN InfoScripts(scripts, i + 1,
                FillFromId(watched, FirstFrag(Strings(scripts[i]), 1, EmbedSeg)))

\* WebcamCrawler.extract_youtube_info: the four strategies in turn, each
\* result merged by dict.update
InfoHarvest(d) ==
    Update(Update(Update(InfoLd(d.ld, 1, NoFields),
                         InfoMeta(d.metaVideo)),
                  InfoIframes(d.iframes, 1, NoFields)),
           InfoScripts(d.ld \o d.inline, 1, NoFields))

-----------------------------------------------------------------------------
(* The location resolver: country and city from the breadcrumb anchors and  *)
(* the path of the visited URL.  A path segment is the sequence of the      *)
(* words that its hyphens separate; a name is a sequence of words that      *)
(* spaces separate.                                                          *)

\* breadcrumb anchors in a page, over all its breadcrumb containers
MaxCrumbs == 2

Sentinel == <<"countries">>
SlugVietnam == <<"vietnam">>
SlugDaNang == <<"da", "nang">>
SlugCam == <<"beach", "cam">>
SlugEn == <<"en">>
SlugLaos == <<"laos">>
NoName == << >>

\* word.title() of a lower-case word
Cap(w) ==
    CASE w = "countries" -> "Countries"
      [] w = "vietnam" -> "Vietnam"
      [] w = "da" -> "Da"
      [] w = "nang" -> "Nang"
      [] w = "beach" -> "Beach"
      [] w = "cam" -> "Cam"
      [] w = "en" -> "En"
      [] w = "laos" -> "Laos"
      [] OTHER -> w

\* slug.replace('-', ' ').title()
NameOf(slug) == [i \in DOMAIN slug |-> Cap(slug[i])]

\* an address: with or without scheme and host, its path segments, and
\* whether the path ends with a slash; "/" has no segment
Href(host, segs, slash) == [host |-> host, segs |-> segs, slash |-> slash]

\* href.count('/')
SlashCount(h) ==
    (IF h.host THEN 2 ELSE 0)
    + (IF h.segs = << >> THEN 1 ELSE Len(h.segs) + (IF h.slash THEN 1 ELSE 0))

\* href.startswith('/countries/')
StartsWithSentinel(h) ==
    /\ ~h.host
    /\ h.segs # << >>
    /\ h.segs[1] = Sentinel
    /\ (Len(h.segs) >= 2 \/ h.slash)

\* href.rstrip('/') not in ['/countries', '/countries/']
NotSentinelOnly(h) == ~(~h.host /\ h.segs = <<Sentinel>>)

\* urlparse(href).path.strip('/').split('/'): the empty path gives ['']
Parts(h) == IF h.segs = << >> THEN <<NoName>> ELSE h.segs

\* a or b on names
NameOr(a, b) == IF a # NoName THEN a ELSE b

\* the first of the positions at, in encounter order; 0 if there is none
FirstIndex(at) == IF at = {} THEN 0 ELSE CHOOSE i \in at : \A j \in at : i <= j

\* save_results_multi.infer_country: an anchor matches by the number of
\* slashes in its href; without title and without slug the loop goes on
MultiCountryCrumb(c) ==
    /\ StartsWithSentinel(c.url)
    /\ SlashCount(c.url) = 2
    /\ (c.title # NoName \/ Len(Parts(c.url)) >= 2)

\* a faulty variant: the fallback reads only a path of exactly n segments
FromUrlExact(url, n) ==
    IF Len(Parts(url)) = n /\ Parts(url)[1] = Sentinel
    THEN NameOf(Parts(url)[n]) ELSE NoName

\* the fallback from the URL, in all copies: len(parts) >= n
FromUrl(url, n) ==
    IF Len(Parts(url)) >= n /\ Parts(url)[1] = Sentinel
    THEN NameOf(Parts(url)[n]) ELSE NoName

infer_country(url, crumbs) ==
    LET i == FirstIndex({j \in DOMAIN crumbs : MultiCountryCrumb(crumbs[j])}) IN
    IF i # 0 THEN NameOr(crumbs[i].title, NameOf(Parts(crumbs[i].url)[2]))
    ELSE FromUrl(url, 2)

\* save_results_multi.infer_city
MultiCityCrumb(c) ==
    /\ StartsWithSentinel(c.url)
    /\ SlashCount(c.url) >= 3
    /\ NotSentinelOnly(c.url)
    /\ (c.title # NoName \/ Len(Parts(c.url)) >= 3)

infer_city(url, crumbs) ==
    LET i == FirstIndex({j \in DOMAIN crumbs : MultiCityCrumb(crumbs[j])}) IN
    IF i # 0 THEN NameOr(crumbs[i].title, NameOf(Parts(crumbs[i].url)[3]))
    ELSE FromUrl(url, 3)

\* save_results_multi.extract_minimal: country, city, "if not city"
MultiLocation(d) ==
    LET country == infer_country(d.url, d.crumbs)
        city == infer_city(d.url, d.crumbs)
    IN [country |-> country, city |-> NameOr(city, country)]


\* crawler.extract_minimal and _infer_country_and_city: an anchor matches by
\* the number of segments of its path, len(parts) == n
ShapeCrumb(c, n) == Len(Parts(c.url)) = n /\ Parts(c.url)[1] = Sentinel

\* the anchor's title attribute, else its slug; then the fallback from the URL
ByShape(url, crumbs, n) ==
    LET i == FirstIndex({j \in DOMAIN crumbs : ShapeCrumb(crumbs[j], n)})
        found == IF i = 0 THEN NoName
                 ELSE NameOr(crumbs[i].title, NameOf(Parts(crumbs[i].url)[n]))
    IN NameOr(found, FromUrl(url, n))

\* 'da nang' in text.lower()
MentionsDaNang(words) ==
    \E i \in 1..(Len(words) - 1) :
        words[i] \in {"da", "Da"} /\ words[i + 1] \in {"nang", "Nang"}

\* '/da-nang/' in url
HasDaNangSegment(url) ==
    \E i \in DOMAIN url.segs :
        url.segs[i] = SlugDaNang /\ (i < Len(url.segs) \/ url.slash)

\* save_results.infer_city_english: the anchors' texts, the title, the URL
infer_city_english(d) ==
    IF \/ \E i \in DOMAIN d.crumbs : MentionsDaNang(d.crumbs[i].text)
       \/ MentionsDaNang(d.title)
       \/ HasDaNangSegment(d.url)
    THEN <<"Da", "Nang">> ELSE NoName

\* crawler.extract_minimal (and save_results.crawl_and_save_results)
MinimalLocation(d) ==
    LET country == ByShape(d.url, d.crumbs, 2)
        city == NameOr(ByShape(d.url, d.crumbs, 3), infer_city_english(d))
    IN [country |-> country, city |-> NameOr(city, country)]

\* crawler_with_coords._infer_country_and_city, and
\* city = cc.get('city') or country in its caller
CoordsLocation(d) ==
    LET country == ByShape(d.url, d.crumbs, 2)
        city == ByShape(d.url, d.crumbs, 3)
    IN [country |-> country, city |-> NameOr(NameOr(city, country), country)]

\* href.strip('/').split('/') on the attribute as it is: an absolute
\* address starts with the parts 'https:', '' and the host
RawParts(h) ==
    IF h.host THEN <<<<"https:">>, NoName, <<"host">>>> \o h.segs ELSE Parts(h)

\* the loop of WebcamCrawler.extract_location_from_page over the links of
\* all breadcrumb containers: every matching link assigns
RECURSIVE PageCrumbs(_, _, _)
PageCrumbs(crumbs, i, acc) ==
    IF i > Len(crumbs) THEN acc
    ELSE LET parts == RawParts(crumbs[i].url) IN
         PageCrumbs(crumbs, i + 1,
            IF Len(parts) = 2 /\ parts[1] = Sentinel
            THEN [acc EXCEPT !.country = NameOf(parts[2])]
            ELSE IF Len(parts) = 3 /\ parts[1] = Sentinel
            THEN [acc EXCEPT !.city = NameOf(parts[3])]
            ELSE acc)

\* WebcamCrawler.extract_location_from_page on a page on which no element
\* that the location selectors match has a text with a location keyword:
\* "country > city" when the breadcrumb links give a country
extract_location_from_page(d) ==
    LET found == PageCrumbs(d.crumbs, 1, [country |-> NoName, city |-> NoName])
    IN  IF found.country = NoName THEN [country |-> NoName, city |-> NoName]
        ELSE [found EXCEPT !.city = NameOr(@, found.country)]

\* the anchors of the breadcrumb containers: the text is the place's name,
\* the title attribute is that name or is missing
Hrefs ==
    {Href(FALSE, segs, slash) :
        segs \in {<<Sentinel>>, <<Sentinel, SlugVietnam>>,
                  <<Sentinel, SlugVietnam, SlugDaNang>>},
        slash \in BOOLEAN}
    \cup {Href(TRUE, <<Sentinel, SlugVietnam, SlugDaNang>>, TRUE),
          Href(FALSE, << >>, FALSE)}

PlaceOf(h) == IF h.segs = << >> THEN <<"Home">> ELSE NameOf(h.segs[Len(h.segs)])

Crumbs ==
    UNION {{[url |-> h, title |-> t, text |-> PlaceOf(h)] : t \in {NoName, PlaceOf(h)}} :
            h \in Hrefs}
    \cup {[url |-> Href(FALSE, <<Sentinel, SlugVietnam>>, TRUE),
           title |-> <<"Viet", "Nam">>, text |-> <<"Viet", "Nam">>],
          [url |-> Href(FALSE, <<Sentinel, SlugLaos>>, TRUE),
           title |-> NoName, text |-> <<"Laos">>]}

\* the addresses visited
VisitedUrls ==
    {Href(TRUE, << >>, FALSE),
     Href(TRUE, <<SlugEn, SlugVietnam>>, TRUE),
     Href(TRUE, <<Sentinel, SlugVietnam>>, TRUE),
     Href(TRUE, <<Sentinel, SlugVietnam, SlugDaNang>>, TRUE),
     Href(TRUE, <<Sentinel, SlugVietnam, SlugDaNang, SlugCam>>, FALSE)}

\* h1.page-heading or <title>, as words
PageTitles == {<<"Live", "Cam">>, <<"Da", "Nang", "Beach">>}

-----------------------------------------------------------------------------
(* The coordinate resolver.  A latitude or longitude is a whole number of   *)
(* ten-thousandths of a degree.  A position on the tile grid is counted in  *)
(* half tiles of zoom level 6, so that a tile corner and a marker that      *)
(* lies 128 pixels from it are both grid positions.                         *)

\* 8.0 <= lat <= 23.0 and 102.0 <= lon <= 110.0
BoxLatMin == 80000
BoxLatMax == 230000
BoxLonMin == 1020000
BoxLonMax == 1100000

\* half tiles across the world at zoom 6: 2 * 2.0 ** zoom
HalfTiles == 128

\* pixels of half a tile: 256.0 / 2
HalfTilePx == 128

\* a pair of values, or nothing (some = FALSE)
NoCoord == [some |-> FALSE, lat |-> 0, lon |-> 0]
Coord(lat, lon) == [some |-> TRUE, lat |-> lat, lon |-> lon]
NoTile == [x |-> -1, y |-> -1]
NoMarker == [dx |-> -1, dy |-> -1]

\* lat_deg of tile_to_lat_lon at the grid rows used here:
\* degrees(atan(sinh(pi * (1 - 2 * tile_y / n)))), rounded
TileLat(hy) ==
    CASE hy = 0 -> 850511
      [] hy = 1 -> 848025
      [] hy = 58 -> 166362
      [] hy = 59 -> 139234

\* lon_deg of tile_to_lat_lon: tile_x / n * 360.0 - 180.0
TileLon(hx) == (hx * 3600000) \div HalfTiles - 1800000

tile_to_lat_lon(hx, hy) == Coord(TileLat(hy), TileLon(hx))

InBox(c) ==
    /\ BoxLatMin <= c.lat /\ c.lat <= BoxLatMax
    /\ BoxLonMin <= c.lon /\ c.lon <= BoxLonMax

\* the coordinates dict: {} (source "none") or latitude, longitude and source
NoCoordinates == [latitude |-> 0, longitude |-> 0, source |-> "none"]
Coordinates(c, source) == [latitude |-> c.lat, longitude |-> c.lon, source |-> source]

\* the geo object of a structured-data block: its latitude and longitude are
\* JSON numbers or JSON strings; only numbers match "latitude":\s*([0-9.-]+)
NoLd == [at |-> NoCoord, quoted |-> FALSE]
LdNumbers(g) == IF g.jsonld.quoted THEN NoCoord ELSE g.jsonld.at

\* the "lat"/"lon" pair that the script patterns capture: an inline script's
\* own, else the latitude/longitude numbers in the text of a structured-data
\* block (find_all('script') returns those blocks too, ahead of the inline
\* scripts)
ScriptLatLon(g) == IF g.latlon # NoCoord THEN g.latlon ELSE LdNumbers(g)

\* <meta name="geo.coordinates" content="lat;lon"> gives both values; a pair
\* of geo.position-latitude / -longitude tags falls into the first branch
\* ('geo.position' in name) twice and gives no longitude
MetaCoord(g) == IF g.meta.kind = "coordinates" THEN g.meta.at ELSE NoCoord

\* extract_openstreetmap_coordinates, the part under "if leaflet_container":
\* the first tile's corner if plausible, the marker, then the chain over the
\* values collected from scripts, structured data and meta tags
LeafletCoordinates(g) ==
    LET corner == tile_to_lat_lon(2 * g.tile.x, 2 * g.tile.y)
        tiled == IF g.tile # NoTile /\ InBox(corner)
                 THEN Coordinates(corner, "leaflet_tile_calculation")
                 ELSE NoCoordinates
        marked == IF g.marker # NoMarker /\ g.tile # NoTile
                  THEN Coordinates(
                         tile_to_lat_lon(2 * g.tile.x + g.marker.dx \div HalfTilePx,
                                         2 * g.tile.y + g.marker.dy \div HalfTilePx),
                         "leaflet_marker_ref_tile")
                  ELSE tiled
    IN IF g.center # NoCoord THEN Coordinates(g.center, "openstreetmap_center")
       ELSE IF ScriptLatLon(g) # NoCoord
            THEN Coordinates(ScriptLatLon(g), "openstreetmap_data")
       ELSE IF g.jsonld.at # NoCoord THEN Coordinates(g.jsonld.at, "json_ld")
       ELSE IF MetaCoord(g) # NoCoord THEN Coordinates(MetaCoord(g), "meta_tags")
       ELSE marked

\* extract_openstreetmap_coordinates: a marker without tile images reads the
\* local name re before its import and the except clause returns {}; else a
\* map iframe with lat= and lon= replaces what was found
extract_openstreetmap_coordinates(g) ==
    IF g.leaflet /\ g.marker # NoMarker /\ g.tile = NoTile THEN NoCoordinates
    ELSE IF g.iframe # NoCoord THEN Coordinates(g.iframe, "openstreetmap_iframe")
    ELSE IF g.leaflet THEN LeafletCoordinates(g)
    ELSE NoCoordinates

\* extract_coordinates: the data attributes are stored under keys that the
\* chain never reads; the script values give the coordinate
extract_coordinates(g) ==
    IF ScriptLatLon(g) # NoCoord THEN Coordinates(ScriptLatLon(g), "openstreetmap_data")
    ELSE IF g.center # NoCoord THEN Coordinates(g.center, "openstreetmap_center")
    ELSE NoCoordinates

\* save_results.crawl_and_save_results and crawler.extract_minimal:
\* if not coordinates.get('latitude'): coordinates.update(extract_coordinates())
ResolvedCoordinates(g) ==
    IF extract_openstreetmap_coordinates(g) # NoCoordinates
    THEN extract_openstreetmap_coordinates(g)
    ELSE extract_coordinates(g)

\* crawler_with_coords.extract_minimal_with_coords: the first script that
\* one of the patterns matches, "lat"/"lng" first, then the structured
\* data's "latitude"/"longitude"
ScannedCoordinates(g) ==
    IF g.latlng # NoCoord THEN g.latlng ELSE LdNumbers(g)

-----------------------------------------------------------------------------
(* One page, handed to the extractors *)

\* the part of the page and of the driver that the location resolver looks at
LocationParts ==
    [url : VisitedUrls, crumbs : SeqsUpTo(Crumbs, MaxCrumbs), title : PageTitles]

\* the site's front page, without breadcrumbs
PlainLocation ==
    [url |-> Href(TRUE, << >>, FALSE), crumbs |-> << >>, title |-> <<"Live", "Cam">>]

\* coordinates published on a page, a different one for every place that
\* can hold one; the last is no latitude at all (123.45 degrees)
Published(k) == Coord(160000 + 100 * k, 1080000 + 100 * k)
OffRange == Coord(1234500, 1082000)

\* the part of the page that the coordinate resolvers look at: data-lat and
\* data-lon of a map div, the Leaflet container with its first tile image
\* and its marker (pixels from that tile's corner), center: [lat, lon] and
\* "lat"/"lon" and "lat"/"lng" in inline scripts, the structured data's geo
\* object, the geo meta tags, the map iframe's lat= and lon=.  The visited
\* URL has no query and no script builds a google.maps.LatLng.
Maps ==
    [dataAttr : {NoCoord, Published(1)},
     leaflet : BOOLEAN,
     tile : {NoTile, [x |-> 51, y |-> 29], [x |-> 0, y |-> 0]},
     marker : {NoMarker, [dx |-> 128, dy |-> 128]},
     center : {NoCoord, Published(2)},
     latlon : {NoCoord, Published(3), OffRange},
     latlng : {NoCoord, Published(4), OffRange},
     jsonld : {NoLd} \cup [at : {Published(5)}, quoted : BOOLEAN],
     meta : {[kind |-> "none", at |-> NoCoord],
             [kind |-> "coordinates", at |-> Published(6)],
             [kind |-> "position", at |-> Published(6)]},
     iframe : {NoCoord, Published(7)}]

\* tile images and markers are children of the Leaflet container
GeoParts == {g \in Maps : g.leaflet \/ (g.tile = NoTile /\ g.marker = NoMarker)}

\* a page without map
PlainGeo ==
    [dataAttr |-> NoCoord, leaflet |-> FALSE, tile |-> NoTile, marker |-> NoMarker,
     center |-> NoCoord, latlon |-> NoCoord, latlng |-> NoCoord, jsonld |-> NoLd,
     meta |-> [kind |-> "none", at |-> NoCoord], iframe |-> NoCoord]

Page(hp, lp, gp) ==
    [kind |-> "page",
     ld |-> hp.ld, metaVideo |-> hp.metaVideo, iframes |-> hp.iframes,
     inline |-> hp.inline, image |-> hp.image,
     url |-> lp.url, crumbs |-> lp.crumbs, title |-> lp.title,
     geo |-> gp]

\* the pages visited: any video and image signals on a page without place
\* and map, any breadcrumbs, address and title on a page without video and
\* map, or any map on the front page
Pages ==
    {Page(hp, PlainLocation, PlainGeo) : hp \in HarvestParts}
    \cup {Page(PlainHarvest, lp, PlainGeo) : lp \in LocationParts}
    \cup {Page(PlainHarvest, PlainLocation, gp) : gp \in GeoParts}

\* the dict an extract_minimal copy returns
Returned(ex, urls, loc, title) ==
    [ex |-> ex, embedUrl |-> urls.embedUrl, contentUrl |-> urls.contentUrl,
     thumbnailUrl |-> urls.thumbnailUrl, country |-> loc.country,
     city |-> loc.city, title |-> title]

\* WebcamCrawler.extract_camera_info: camera_info.update(extract_youtube_info(soup))
ExtractYoutubeInfo ==
    /\ doc.kind = "page"
    /\ out' = [ex |-> "info", embedUrl |-> InfoHarvest(doc).embedUrl,
               contentUrl |-> InfoHarvest(doc).contentUrl,
               thumbnailUrl |-> InfoHarvest(doc).thumbnailUrl]
    /\ UNCHANGED <<files, last, left, writers, doc>>

\* crawler.extract_minimal
CrawlerExtractMinimal ==
    /\ doc.kind = "page"
    /\ out' = Returned("minimal", MinimalHarvest(doc), MinimalLocation(doc), doc.title)
    /\ UNCHANGED <<files, last, left, writers, doc>>

\* save_results_multi.extract_minimal
MultiExtractMinimal ==
    /\ doc.kind = "page"
    /\ out' = Returned("multi", MultiHarvest(doc), MultiLocation(doc), doc.title)
    /\ UNCHANGED <<files, last, left, writers, doc>>

\* crawler_with_coords.extract_minimal_with_coords
ExtractMinimalWithCoords ==
    /\ doc.kind = "page"
    /\ out' = [ex |-> "coords", embedUrl |-> CoordsHarvest(doc).embedUrl,
               contentUrl |-> CoordsHarvest(doc).contentUrl,
               thumbnailUrl |-> CoordsHarvest(doc).thumbnailUrl,
               country |-> CoordsLocation(doc).country,
               city |-> CoordsLocation(doc).city, title |-> doc.title,
               coordinates |-> ScannedCoordinates(doc.geo)]
    /\ UNCHANGED <<files, last, left, writers, doc>>

\* WebcamCrawler.extract_location, the part taken from the page
ExtractLocationFromPage ==
    /\ doc.kind = "page"
    /\ out' = [ex |-> "location",
               country |-> extract_location_from_page(doc).country,
               city |-> extract_location_from_page(doc).city]
    /\ UNCHANGED <<files, last, left, writers, doc>>

\* save_results.crawl_and_save_results, result['location']['coordinates']:
\* extract_openstreetmap_coordinates, then extract_coordinates if that gave
\* no latitude (crawler.extract_minimal computes the same and drops it)
ResolveCoordinates ==
    /\ doc.kind = "page"
    /\ out' = [ex |-> "resolver", coordinates |-> ResolvedCoordinates(doc.geo)]
    /\ UNCHANGED <<files, last, left, writers, doc>>

\* the driver has loaded some page; nothing is extracted yet
InitPage ==
    /\ files = << >>
    /\ last = NoStep
    /\ left = 0
    /\ writers = NoWriters
    /\ doc \in Pages
    /\ out = NoOut

NextPage ==
    \/ ExtractYoutubeInfo
    \/ CrawlerExtractMinimal
    \/ MultiExtractMinimal
    \/ ExtractMinimalWithCoords
    \/ ExtractLocationFromPage
    \/ ResolveCoordinates

SpecPage == InitPage /\ [][NextPage]_vars

-----------------------------------------------------------------------------
(* Properties of the harvester *)

\* what each strategy, taken alone, yields for field k of document d (NoKey:
\* nothing): the first non-empty value of the structured data, the video or
\* image meta tag, the first video iframe, the first inline script
RECURSIVE FirstLd(_, _, _)
FirstLd(ld, i, k) ==
    IF i > Len(ld) THEN NoKey
    ELSE IF Truth(ld[i][k]) THEN FirstOf(ld[i][k])
    ELSE FirstLd(ld, i + 1, k)

MetaYield(d, k) ==
    IF k = "thumbnailUrl"
    THEN IF MetaThumb(d.image) = PyNone THEN NoKey ELSE MetaThumb(d.image)
    ELSE InfoMeta(d.metaVideo)[k]

IframeYield(d, k) ==
    LET i == FirstYouTube(d.iframes, 1) IN
    IF i = 0 \/ k = "thumbnailUrl" THEN NoKey
    ELSE IF k = "embedUrl" THEN PyStr(d.iframes[i])
    ELSE IF Contains(d.iframes[i], EmbedSeg) THEN PyStr(WatchOfEmbed(d.iframes[i]))
    ELSE NoKey

ScriptYield(d, k) == IF d.inline = << >> THEN NoKey ELSE Quoted(d.inline[1])[k]

\* the yields in priority order, highest first
Yields(d, k) == <<FirstLd(d.ld, 1, k), MetaYield(d, k), IframeYield(d, k), ScriptYield(d, k)>>

\* two strategies yield different values for field k
Conflict(d, k) ==
    \E i, j \in 1..4 :
        /\ i < j
        /\ Yields(d, k)[i] # NoKey
        /\ Yields(d, k)[j] # NoKey
        /\ Yields(d, k)[i] # Yields(d, k)[j]

\* the yield of the highest-priority strategy that yields something
Best(d, k) ==
    LET y == Yields(d, k)
        i == CHOOSE j \in 1..4 : y[j] # NoKey /\ \A h \in 1..(j - 1) : y[h] = NoKey
    IN y[i]

\* C11 (priority resolution): whenever two strategies yield different values
\* for embedUrl, contentUrl or thumbnailUrl of a document, the record that
\* extract_youtube_info or crawler.extract_minimal assembles holds the value
\* of the higher-priority strategy (structured data, meta tags, iframes,
\* inline scripts, in this order).
C11_PriorityResolution ==
    out.ex \in {"info", "minimal"} =>
        \A k \in UrlFields : Conflict(doc, k) => out[k] = Best(doc, k)

\* a structured-data object that carries all three fields
Carries(obj) == \A k \in UrlFields : Truth(obj[k])

\* the page's signals agree: no two strategies yield different values
Agreeing(d) == \A k \in UrlFields : ~Conflict(d, k)

\* C12 (structured-data read): when the first structured-data object of a
\* page carries embedUrl, contentUrl and thumbnailUrl and no other strategy
\* disagrees, the record holds exactly those values, a thumbnailUrl list
\* contributing its first element: thumbnailUrl is a string, never the list.
C12_StructuredDataRead ==
    (/\ out.ex \in {"multi", "info", "minimal"}
     /\ doc.ld # << >>
     /\ Carries(doc.ld[1])
     /\ Agreeing(doc))
    => /\ out.embedUrl = doc.ld[1].embedUrl
       /\ out.contentUrl = doc.ld[1].contentUrl
       /\ out.thumbnailUrl = FirstOf(doc.ld[1].thumbnailUrl)
       /\ out.thumbnailUrl.t = "str"

\* no strategy yields a value for field k of document d
NoYield(d, k) == \A i \in 1..4 : Yields(d, k)[i] = NoKey

\* C13 (harvester failure semantics): each of embedUrl, contentUrl and
\* thumbnailUrl in the record returned by save_results_multi.extract_minimal
\* or extract_minimal_with_coords is a string, and it is the empty string
\* when no strategy yields a value for it, a null in the structured data
\* included.
C13_StringsOrEmpty ==
    out.ex \in {"multi", "coords"} =>
        \A k \in UrlFields :
            /\ out[k].t = "str"
            /\ NoYield(doc, k) => out[k] = EmptyStr

\* the address names its scheme and host
Absolute(s) == Len(s) > 0 /\ s[1] = Scheme

\* C14 (URL normalization): every string that the extract_minimal copies of
\* save_results_multi and crawler place in embedUrl, contentUrl or
\* thumbnailUrl is empty or an absolute URL: a relative or host-relative
\* reference captured from the page has been resolved against its base URL.
C14_UrlsAbsolute ==
    out.ex \in {"multi", "minimal"} =>
        \A k \in UrlFields :
            out[k].t = "str" => (out[k] = EmptyStr \/ Absolute(out[k].v))

-----------------------------------------------------------------------------
(* Properties of the location resolver *)

\* the first breadcrumb anchor whose link path has exactly n segments, the
\* first of them the sentinel; 0 if there is none
AnchorAt(d, n) ==
    LET at == {i \in DOMAIN d.crumbs :
                    /\ Len(d.crumbs[i].url.segs) = n
                    /\ n > 0
                    /\ d.crumbs[i].url.segs[1] = Sentinel}
    IN IF at = {} THEN 0 ELSE CHOOSE i \in at : \A j \in at : i <= j

\* the value an anchor supplies: its title attribute, else its slug's name
Supplied(c) == IF c.title # NoName THEN c.title ELSE PlaceOf(c.url)

\* C15 (path-shape rule): in the record of save_results_multi.extract_minimal
\* and of crawler.extract_minimal, the first breadcrumb anchor whose link path
\* has exactly two segments under 'countries' supplies the country and the
\* first with exactly three segments supplies the city; so the trail
\* /countries/vietnam/ (Vietnam), /countries/vietnam/da-nang/ (Da Nang) gives
\* country Vietnam and city Da Nang.
C15_PathShapeRule ==
    out.ex \in {"multi", "minimal"} =>
        /\ AnchorAt(doc, 2) # 0 => out.country = Supplied(doc.crumbs[AnchorAt(doc, 2)])
        /\ AnchorAt(doc, 3) # 0 => out.city = Supplied(doc.crumbs[AnchorAt(doc, 3)])

\* no breadcrumb anchor of the page lies under the sentinel
NoSentinelAnchor(d) ==
    \A i \in DOMAIN d.crumbs :
        d.crumbs[i].url.segs = << >> \/ d.crumbs[i].url.segs[1] # Sentinel

\* the name in segment n of the visited URL's path, when the path lies under
\* the sentinel and has exactly n segments / at least n segments
UrlExactly(d, n) ==
    IF Len(d.url.segs) = n /\ d.url.segs[1] = Sentinel
    THEN NameOf(d.url.segs[n]) ELSE NoName

UrlAtLeast(d, n) ==
    IF Len(d.url.segs) >= n /\ d.url.segs[1] = Sentinel
    THEN NameOf(d.url.segs[n]) ELSE NoName

C17_CityDefault ==
    out.ex \in {"multi", "minimal"} =>
        /\ (/\ out.country # NoName
            /\ AnchorAt(doc, 3) = 0
            /\ UrlAtLeast(doc, 3) = NoName) => out.city = out.country
        /\ out.country # NoName => out.city # NoName

-----------------------------------------------------------------------------
(* Properties of the coordinate resolver *)

\* -90 <= latitude <= 90 and -180 <= longitude <= 180
Valid(c) ==
    /\ -900000 <= c.lat /\ c.lat <= 900000
    /\ -1800000 <= c.lon /\ c.lon <= 1800000

\* the coordinate that the tile images (and the marker, if any) stand for
TileDerived(g) ==
    IF g.marker # NoMarker
    THEN tile_to_lat_lon(2 * g.tile.x + g.marker.dx \div HalfTilePx,
                         2 * g.tile.y + g.marker.dy \div HalfTilePx)
    ELSE tile_to_lat_lon(2 * g.tile.x, 2 * g.tile.y)

\* the plausible coordinates that tier i finds on the page: 1 data
\* attributes, 2 inline scripts, 3 tile inversion, 4 structured data,
\* 5 meta tags, 6 map iframe
TierValues(g, i) ==
    CASE i = 1 -> {c \in {g.dataAttr} : c.some /\ Valid(c)}
      [] i = 2 -> {c \in {g.center, g.latlon} : c.some /\ Valid(c)}
      [] i = 3 -> IF g.leaflet /\ g.tile # NoTile
                  THEN {c \in {TileDerived(g)} : InBox(c)} ELSE {}
      [] i = 4 -> {c \in {g.jsonld.at} : c.some /\ Valid(c)}
      [] i = 5 -> {c \in {g.meta.at} : c.some /\ Valid(c)}
      [] i = 6 -> {c \in {g.iframe} : c.some /\ Valid(c)}

Tiers == 1..6

\* the tier that a source tag of the resolver names
SourceTier(source) ==
    CASE source \in {"openstreetmap_center", "openstreetmap_data"} -> 2
      [] source \in {"leaflet_tile_calculation", "leaflet_marker_ref_tile"} -> 3
      [] source = "json_ld" -> 4
      [] source = "meta_tags" -> 5
      [] source = "openstreetmap_iframe" -> 6
      [] OTHER -> 0

\* C18 (coordinate tier order): when two tiers both yield a coordinate for a
\* page, the coordinate that the resolver returns, and its source tag, are
\* those of the earlier tier (data attributes, inline scripts, tile
\* inversion, structured data, meta tags, map iframe, in this order).
C18_TierOrder ==
    out.ex = "resolver" =>
        \A i, j \in Tiers :
            (/\ i < j
             /\ TierValues(doc.geo, i) # {}
             /\ TierValues(doc.geo, j) # {}
             /\ \A h \in 1..(i - 1) : TierValues(doc.geo, h) = {})
            => /\ Coord(out.coordinates.latitude, out.coordinates.longitude)
                    \in TierValues(doc.geo, i)
               /\ SourceTier(out.coordinates.source) = i

\* the coordinate of a returned coordinates record
ReturnedCoord(r) == Coord(r.latitude, r.longitude)

TileSources == {"leaflet_tile_calculation", "leaflet_marker_ref_tile"}

\* C19 (bounding-box rejection): a coordinate derived from tile indices (the
\* first tile's corner, or the marker-refined fractional tile index) that
\* lies outside the plausibility box (latitude 8..23, longitude 102..110) is
\* never present in the coordinates returned for the record.
C19_BoxRejection ==
    (/\ out.ex = "resolver"
     /\ out.coordinates.source \in TileSources)
    => InBox(ReturnedCoord(out.coordinates))

\* C20 (coordinate validity): every coordinate returned as the record's
\* coordinate satisfies -90 <= latitude <= 90 and -180 <= longitude <= 180,
\* whatever tier produced it.
C20_CoordinateValid ==
    /\ (out.ex = "resolver" /\ out.coordinates.source # "none")
       => Valid(ReturnedCoord(out.coordinates))
    /\ (out.ex = "coords" /\ out.coordinates.some)
       => Valid(out.coordinates)

-----------------------------------------------------------------------------
(* The tile conversions tile_to_lat_lon and lat_lon_to_tile on a whole tile *)
(* of any zoom level.  The code computes in 64-bit floating point.  A       *)
(* longitude is counted in the spacing of the floating-point numbers that   *)
(* the code computes it in; a latitude is the row whose upper edge it is,   *)
(* with the direction in which the transcendental functions rounded it.     *)

MaxZoom == 3

\* the longitudes -256 < lon <= -128 are 2^-45 degree apart in 64-bit
\* floating point (53 significant bits)
LonUlpExp == 45

\* a zoom level at which one tile is narrower than one of these spacings
DeepZoom == 55

\* the tile columns and rows of the deep zoom level that are converted
DeepIndex == 0..5

\* x / y rounded to the nearest whole number, halves to the even one
\* (the rounding of one floating-point operation)
RoundHalfEven(x, y) ==
    LET q == x \div y
        r == x % y
    IN  IF 2 * r > y \/ (2 * r = y /\ q % 2 = 1) THEN q + 1 ELSE q

\* the spacing in which the longitudes of zoom level z are counted:
\* 2^-z degree while tile_x / n * 360.0 - 180.0 is exact, else 2^-45
LonUnitExp(zoom) == IF zoom <= LonUlpExp THEN zoom ELSE LonUlpExp

\* lon_deg = tile_x / n * 360.0 - 180.0, as the distance from -180
TileLonAt(tile_x, zoom) ==
    IF zoom <= LonUlpExp
    THEN tile_x * 360
    ELSE RoundHalfEven(tile_x * 360, 2 ^ (zoom - LonUlpExp))

Roundings == {-1, 0, 1}

\* tile_to_lat_lon(tile_x, tile_y, zoom): rounded is the direction in which
\* atan(sinh(..)) and degrees(..) rounded the latitude of row tile_y
tile_to_lat_lon_at(tile_x, tile_y, zoom, rounded) ==
    [lon |-> TileLonAt(tile_x, zoom),
     lat |-> [row |-> tile_y, rounded |-> rounded]]

\* int((lon + 180.0) / 360.0 * n)
LonTile(lon, zoom) == (lon * 2 ^ (zoom - LonUnitExp(zoom))) \div 360

\* the row that the 64-bit computation of lat_lon_to_tile returns for the
\* latitude of rows 0..5 at the deep zoom level, where the latitudes of
\* neighbouring rows round to the same floating-point number
DeepLatTile(row) == IF row <= 1 THEN -4 ELSE 8

\* a faulty variant: the division by 2.0 is forgotten
LatTileUnhalved(lat, zoom) == 2 * lat.row

\* int((1.0 - asinh(tan(lat_rad)) / pi) / 2.0 * n): int() truncates towards
\* zero, so a latitude rounded upwards (towards the row above) falls in the
\* row above, except in row 0
LatTile(lat, zoom) ==
    IF zoom = DeepZoom THEN DeepLatTile(lat.row)
    ELSE IF lat.rounded = 1 /\ lat.row > 0 THEN lat.row - 1 ELSE lat.row

lat_lon_to_tile(at, zoom) ==
    [x |-> LonTile(at.lon, zoom), y |-> LatTile(at.lat, zoom)]

TilesOf(zoom, index) ==
    {[kind |-> "tile", zoom |-> zoom, x |-> x, y |-> y] :
        x \in index, y \in index}

\* the tiles handed to the conversion: every tile of the zoom levels up to
\* MaxZoom, and the tiles next to the origin of the deep zoom level
Tiles ==
    UNION {TilesOf(z, 0..(2 ^ z - 1)) : z \in 0..MaxZoom}
        \cup TilesOf(DeepZoom, DeepIndex)

\* tile_to_lat_lon of the tile
TileToLatLon ==
    /\ doc.kind = "tile"
    /\ out = NoOut
    /\ \E rounded \in Roundings :
           out' = [ex |-> "latlon", zoom |-> doc.zoom,
                   at |-> tile_to_lat_lon_at(doc.x, doc.y, doc.zoom, rounded)]
    /\ UNCHANGED <<files, last, left, writers, doc>>

\* lat_lon_to_tile of the coordinate, at the same zoom level
LatLonToTile ==
    /\ out.ex = "latlon"
    /\ out' = [ex |-> "tile", tile |-> lat_lon_to_tile(out.at, out.zoom)]
    /\ UNCHANGED <<files, last, left, writers, doc>>

InitTile ==
    /\ files = << >>
    /\ last = NoStep
    /\ left = 0
    /\ writers = NoWriters
    /\ doc \in Tiles
    /\ out = NoOut

NextTile == TileToLatLon \/ LatLonToTile

SpecTile == InitTile /\ [][NextTile]_vars

-----------------------------------------------------------------------------
(* Properties of the tile conversions *)

Dist(a, b) == IF a >= b THEN a - b ELSE b - a

\* the tile that came back lies within one tile of the tile that was converted
WithinOne == Dist(out.tile.x, doc.x) <= 1 /\ Dist(out.tile.y, doc.y) <= 1

-----------------------------------------------------------------------------
(* The render necessity classifier should_use_selenium.  A document is     *)
(* what the nine tests look at: the number of script elements, the         *)
(* elements that are present, the length of the text, the title.           *)

MaxScripts == 6

ScriptLimit == 5

TextLimit == 1000

IndicatorLimit == 3

\* the documents handed to the classifier; a script whose src contains
\* "next" is one of the script elements
ClassifierDocs ==
    {d \in [kind : {"document"},
            scripts : {0, 2, MaxScripts - 1, MaxScripts},
            nextSrc : BOOLEAN, root : BOOLEAN, app : BOOLEAN,
            template : BOOLEAN, noscript : BOOLEAN,
            textLen : {0, TextLimit - 1, TextLimit, 1500},
            title : {"absent", "empty", "text"},
            h1 : BOOLEAN, h2 : BOOLEAN, description : BOOLEAN] :
        d.nextSrc => d.scripts > 0}

\* the list `indicators`
Indicators(d) ==
    <<d.scripts > ScriptLimit,
      d.nextSrc,
      d.root \/ d.app,
      d.template,
      d.noscript,
      d.textLen < TextLimit,
      d.title = "absent" \/ d.title = "empty",
      ~d.h1,
      ~d.description>>

\* sum(indicators): True counts as 1
RECURSIVE Sum(_)
Sum(s) == IF s = << >> THEN 0 ELSE (IF Head(s) THEN 1 ELSE 0) + Sum(Tail(s))

\* a faulty variant: more than three indicators are required
NeedsMoreThanLimit(d) == Sum(Indicators(d)) > IndicatorLimit

should_use_selenium(d) == Sum(Indicators(d)) >= IndicatorLimit

ShouldUseSelenium ==
    /\ doc.kind = "document"
    /\ out = NoOut
    /\ out' = [ex |-> "classifier", needs |-> should_use_selenium(doc)]
    /\ UNCHANGED <<files, last, left, writers, doc>>

InitClassifier ==
    /\ files = << >>
    /\ last = NoStep
    /\ left = 0
    /\ writers = NoWriters
    /\ doc \in ClassifierDocs
    /\ out = NoOut

NextClassifier == ShouldUseSelenium

SpecClassifier == InitClassifier /\ [][NextClassifier]_vars

-----------------------------------------------------------------------------
(* Properties of the classifier *)

\* the indicators that are true of the document
TrueIndicators(d) == {i \in 1..9 : Indicators(d)[i]}

\* an empty title, no heading, no meta description, 2 script elements and
\* 1500 characters of text, and nothing else that an indicator looks at
ScenarioE(d) ==
    /\ d.title = "empty" /\ ~d.h1 /\ ~d.h2 /\ ~d.description
    /\ d.scripts = 2 /\ d.textLen = 1500
    /\ ~d.nextSrc /\ ~d.root /\ ~d.app /\ ~d.template /\ ~d.noscript

\* C22 (render necessity classifier): the classifier returns true exactly
\* when at least 3 of its nine indicators are true; a document with an empty
\* title, no headings, no meta description, 2 script elements and 1500
\* characters of text is classified as needing rendering.
C22_Classifier ==
    out.ex = "classifier" =>
        /\ Len(Indicators(doc)) = 9
        /\ out.needs <=> Cardinality(TrueIndicators(doc)) >= 3
        /\ ScenarioE(doc) => out.needs

C22_Witness == out.ex = "classifier" /\ ScenarioE(doc) /\ out.needs

-----------------------------------------------------------------------------
(* The title of a page, and the structured-data blocks of a page of which  *)
(* some do not parse.  A text is what get_text(strip=True) returns.        *)

MaxHeadings == 2
MaxBlocks == 2

\* extract_title's answer when it finds nothing ("Không có tiêu đề")
Placeholder == "No title"

\* the h1 and h2 elements of the page in document order; the class
\* page-heading occurs on h1 elements only
Headings ==
    [tag : {"h1"}, heading : BOOLEAN, text : {"", "Cam", "Beach Cam"}]
        \cup {[tag |-> "h2", heading |-> FALSE, text |-> "Live Streams"]}

\* the <title> element: missing, empty or with text
NoTag == [present |-> FALSE, text |-> ""]
TitleTags == {NoTag, [present |-> TRUE, text |-> ""],
              [present |-> TRUE, text |-> "Site Title"]}

\* script blocks of type application/ld+json: one that json.loads rejects,
\* and objects with or without a name and an embedUrl
Malformed == [parses |-> FALSE, hasName |-> FALSE, name |-> "", embedUrl |-> NoKey]
Blocks ==
    {Malformed,
     [parses |-> TRUE, hasName |-> TRUE, name |-> "Name A",
      embedUrl |-> PyStr(AbsEmbed("ID1"))],
     [parses |-> TRUE, hasName |-> TRUE, name |-> "Name B", embedUrl |-> NoKey],
     [parses |-> TRUE, hasName |-> FALSE, name |-> "",
      embedUrl |-> PyStr(AbsEmbed("ID5"))]}

\* the pages: any headings and title with at most one block, or any blocks
\* on a page without headings and title
TitlePages ==
    [kind : {"titles"}, heads : SeqsUpTo(Headings, MaxHeadings),
     titleTag : TitleTags, ld : SeqsUpTo(Blocks, 1)]
    \cup [kind : {"titles"}, heads : {<< >>}, titleTag : {NoTag},
          ld : SeqsUpTo(Blocks, MaxBlocks)]

\* the index of the first element of s from position i on that is in set
\* S, 0 if there is none
RECURSIVE FirstIn(_, _, _)
FirstIn(s, i, S) ==
    IF i > Len(s) THEN 0
    ELSE IF s[i] \in S THEN i
    ELSE FirstIn(s, i + 1, S)

\* soup.find('h1', class_='page-heading'): its text, "" if there is none
PageHeadingText(d) ==
    LET i == FirstIn(d.heads, 1, {h \in Headings : h.tag = "h1" /\ h.heading})
    IN  IF i = 0 THEN "" ELSE d.heads[i].text

\* title of save_results_multi.extract_minimal and
\* crawler_with_coords.extract_minimal_with_coords
MultiTitle(d) ==
    IF PageHeadingText(d) # "" THEN PageHeadingText(d)
    ELSE IF d.titleTag.present THEN d.titleTag.text
    ELSE ""

\* title_text of crawler.extract_minimal: h1_tags[0] when the title is empty
MinimalTitle(d) ==
    LET i == FirstIn(d.heads, 1, {h \in Headings : h.tag = "h1"})
    IN  IF MultiTitle(d) # "" THEN MultiTitle(d)
        ELSE IF i # 0 THEN d.heads[i].text
        ELSE ""

\* WebcamCrawler.extract_title_from_json_ld: one try around the whole loop
RECURSIVE extract_title_from_json_ld(_, _)
extract_title_from_json_ld(ld, i) ==
    IF i > Len(ld) THEN ""
    ELSE IF ~ld[i].parses THEN ""
    ELSE IF ld[i].hasName THEN ld[i].name
    ELSE extract_title_from_json_ld(ld, i + 1)

\* WebcamCrawler.extract_title; no element other than the headings has a
\* class that the title selectors match
extract_title(d) ==
    LET i == FirstIn(d.heads, 1,
                     {h \in Headings : h.tag = "h1" /\ Len(h.text) > 5})
        name == extract_title_from_json_ld(d.ld, 1)
    IN  IF d.titleTag.present /\ d.titleTag.text # ""
           /\ d.titleTag.text # Placeholder
        THEN d.titleTag.text
        ELSE IF i # 0 THEN d.heads[i].text
        ELSE IF name # "" THEN name
        ELSE Placeholder

\* the objects that the harvesters get from the blocks: json.loads raises
\* on a block that does not parse, and the loop continues with the next
RECURSIVE Loaded(_)
Loaded(ld) ==
    IF ld = << >> THEN << >>
    ELSE IF Head(ld).parses
         THEN <<[NoFields EXCEPT !.embedUrl = Head(ld).embedUrl]>> \o Loaded(Tail(ld))
         ELSE Loaded(Tail(ld))

\* the page as the harvesters see it
HarvestView(d) ==
    Page([PlainHarvest EXCEPT !.ld = Loaded(d.ld)], PlainLocation, PlainGeo)

MultiExtractTitle ==
    /\ doc.kind = "titles"
    /\ out' = [ex |-> "multi", title |-> MultiTitle(doc),
               embedUrl |-> MultiHarvest(HarvestView(doc)).embedUrl]
    /\ UNCHANGED <<files, last, left, writers, doc>>

CrawlerExtractTitle ==
    /\ doc.kind = "titles"
    /\ out' = [ex |-> "minimal", title |-> MinimalTitle(doc),
               embedUrl |-> MinimalHarvest(HarvestView(doc)).embedUrl]
    /\ UNCHANGED <<files, last, left, writers, doc>>

\* WebcamCrawler.crawl_url: title and camera_info of data
CrawlUrlTitle ==
    /\ doc.kind = "titles"
    /\ out' = [ex |-> "info", title |-> extract_title(doc),
               embedUrl |-> InfoLd(Loaded(doc.ld), 1, NoFields).embedUrl]
    /\ UNCHANGED <<files, last, left, writers, doc>>

InitTitle ==
    /\ files = << >>
    /\ last = NoStep
    /\ left = 0
    /\ writers = NoWriters
    /\ doc \in TitlePages
    /\ out = NoOut

NextTitle == MultiExtractTitle \/ CrawlerExtractTitle \/ CrawlUrlTitle

SpecTitle == InitTitle /\ [][NextTitle]_vars

-----------------------------------------------------------------------------
(* Properties of the title and of the structured-data blocks *)

\* the name of the first block that parses and has a non-empty name
NameInBlocks(ld) ==
    LET i == FirstIn(ld, 1, {b \in Blocks : b.parses /\ b.hasName /\ b.name # ""})
    IN  IF i = 0 THEN "" ELSE ld[i].name

\* the sources of the title in the order of their priority
TitleSources(d) ==
    <<PageHeadingText(d),
      d.titleTag.text,
      IF d.heads = << >> THEN "" ELSE d.heads[1].text,
      NameInBlocks(d.ld)>>

\* the first source that is not empty, "" if all are
TitleByPriority(d) ==
    LET s == TitleSources(d)
        filled == {i \in DOMAIN s : s[i] # ""}
    IN  IF filled = {} THEN ""
        ELSE s[CHOOSE i \in filled : \A j \in filled : i <= j]

\* C23 (title priority): the title is the text of the h1 with class
\* page-heading if it is not empty, else the text of <title> if it is not
\* empty, else the text of the first heading element of any kind, else a
\* name found in the structured data; a source of lower priority is used
\* only when every source of higher priority is missing or empty.
C23_TitlePriority ==
    (doc.kind = "titles" /\ out.ex \in {"multi", "minimal", "info"})
    => \/ out.title = TitleByPriority(doc)
       \/ TitleByPriority(doc) = "" /\ out.title = Placeholder

-----------------------------------------------------------------------------
(* A batch: one run of an entry point over a list of URLs, from an empty   *)
(* store, in which the extraction, the merge and the write can fail and    *)
(* the process can be stopped while it writes.                             *)

MaxBatch == 3

\* an embedUrl that the page's structured data gives as a non-empty JSON
\* array: the harvesters store it as it is; it is truthy and not hashable
EmbedList == "<list>"

Hashable(v) == v # EmbedList

\* the records that the pages of the batch yield
BatchRecords ==
    [isDict : {TRUE}, embedUrl : {EmbedA, EmbedList}, contentUrl : {ContentX},
     title : {"T1"}, country : {CountryVN}]
    \cup [isDict : {TRUE}, embedUrl : {EmbedA}, contentUrl : {ContentX},
          title : {"T2"}, country : Countries]
    \cup [isDict : {TRUE}, embedUrl : {""}, contentUrl : {""},
          title : {"T1"}, country : {CountryVN}]

EntryPoints == {"multi", "crawler", "single", "coords", "run"}

\* the entry points whose loop calls the extractor outside any try
UnguardedExtraction == {"crawler", "run"}

\* the entry points whose except branch writes the bare record
RewritesOnError == {"crawler", "single", "coords"}

\* the list that the list branch works on
Surviving(ep, p) == IF ep = "coords" THEN p.items ELSE PruneList(p.items)

\* the merge raises TypeError: the list branch hashes the pair of every
\* stored object for the set `keys`, then the pair of the new record
MergeRaises(ep, p, data) ==
    /\ p.kind = "list"
    /\ \/ \E i \in DOMAIN Surviving(ep, p) :
             /\ Surviving(ep, p)[i].isDict
             /\ ~Hashable(Surviving(ep, p)[i].embedUrl)
       \/ ~Hashable(data.embedUrl)

\* the file of the record's key
KeyFile(ep, data) ==
    IF ep = "coords" THEN LocationFile(data.country) ELSE PlainFile(data.country)

\* the record does not pass the entry point's filter
Filtered(ep, data) ==
    CASE ep \in {"multi", "single"} -> ~HasUrl(data)
      [] ep \in {"crawler", "coords"} ->
            ~Truthy(data.contentUrl) \/ ~IsYouTube(data.contentUrl)
      [] OTHER -> FALSE

\* what the entry point writes when nothing fails
FullyMerged(ep, p, data) ==
    CASE ep = "run" -> DictOf(data)
      [] ep = "single" -> StoredSingle(p, data)
      [] ep = "coords" -> Stored(p, data, FALSE)
      [] OTHER -> Stored(p, data, TRUE)

\* one URL of the batch is done: event tells what happened to it
BatchStep(data, event, wrote, payload, stop) ==
    LET f == KeyFile(doc.ep, data) IN
    /\ files' = IF wrote THEN Written(f, payload) ELSE files
    /\ last' = [NoStep EXCEPT !.ep = doc.ep, !.rec = data, !.file = f,
                              !.pre = Lookup(f), !.wrote = wrote]
    /\ left' = left - 1
    /\ doc' = [doc EXCEPT !.aborted = stop]
    /\ out' = [ex |-> "batch", event |-> event]
    /\ UNCHANGED writers

Running == doc.kind = "batch" /\ ~doc.aborted /\ left > 0

\* driver.get or the wait for the page body raises
ExtractionFails ==
    /\ Running
    /\ BatchStep(NonDictItem, "extraction failed", FALSE, Absent,
                 doc.ep \in UnguardedExtraction)

\* the record is filtered out, or merged and written
Processed ==
    /\ Running
    /\ \E data \in BatchRecords :
        LET p == Lookup(KeyFile(doc.ep, data)) IN
        IF Filtered(doc.ep, data)
        THEN BatchStep(data, "skipped", FALSE, Absent, FALSE)
        ELSE IF doc.ep # "run" /\ MergeRaises(doc.ep, p, data)
        THEN BatchStep(data, "merge failed", doc.ep \in RewritesOnError,
                       DictOf(data), FALSE)
        ELSE BatchStep(data, "saved", TRUE, FullyMerged(doc.ep, p, data), FALSE)

\* the file cannot be opened for writing: save_results_multi.main prints
\* the error; the except branch of the other merging entry points tries the
\* same write again, which raises out of the loop, as does run_crawler's
WriteFails ==
    /\ Running
    /\ \E data \in BatchRecords :
        /\ ~Filtered(doc.ep, data)
        /\ BatchStep(data, "write failed", FALSE, Absent,
                     doc.ep \in {"crawler", "coords", "run"})

\* the process is stopped after open(out_file, 'w') has emptied the file
\* and before json.dump has written the payload
StoppedInWrite ==
    /\ Running
    /\ \E data \in BatchRecords :
        /\ ~Filtered(doc.ep, data)
        /\ ~(doc.ep = "multi" /\ MergeRaises(doc.ep, Lookup(KeyFile(doc.ep, data)), data))
        /\ BatchStep(data, "stopped", TRUE, Corrupt, TRUE)

InitBatch ==
    /\ files = << >>
    /\ last = NoStep
    /\ left = MaxBatch
    /\ writers = NoWriters
    /\ doc \in [kind : {"batch"}, ep : EntryPoints, aborted : {FALSE}]
    /\ out = NoOut

NextBatch == ExtractionFails \/ Processed \/ WriteFails \/ StoppedInWrite

SpecBatch == InitBatch /\ [][NextBatch]_vars

-----------------------------------------------------------------------------
(* Properties of the batch *)

\* what can go wrong with one URL without the process being stopped
Failures == {"extraction failed", "skipped", "merge failed", "write failed"}

\* C24 (no condition is fatal to a batch): when the processing of one URL
\* fails (extraction error, incomplete record, failed merge or failed store
\* write), the loop goes on with the remaining URLs of the list.
C24_BatchContinues ==
    (doc.kind = "batch" /\ out.ex = "batch" /\ out.event \in Failures)
    => (~doc.aborted \/ left = 0)


\* C25 (no partial persistence on abort): when the processing of a URL is
\* aborted at any step, also in the middle of the store write, the file of
\* the key holds either what it held before that URL or the fully merged
\* collection, never an empty or truncated payload.
C25_NoPartialPersistence ==
    (doc.kind = "batch" /\ out.ex = "batch" /\ doc.aborted)
    => Lookup(last.file) \in {last.pre, FullyMerged(doc.ep, last.pre, last.rec)}

-----------------------------------------------------------------------------
(* Properties of the breadcrumb anchors *)

\* the names that an anchor can supply: its title attribute or its slug
FromAnchor(c) == {Supplied(c), PlaceOf(c.url)}

\* more than one anchor of the page has a path of n segments under the
\* sentinel
SeveralMatch(d, n) ==
    Cardinality({i \in DOMAIN d.crumbs : ShapeCrumb(d.crumbs[i], n)}) > 1

\* C26 (first matching breadcrumb anchor wins): when several anchors match
\* the country shape (or the city shape), the value comes from the first of
\* them in document order; a later matching anchor never overrides it.
C26_FirstAnchorWins ==
    out.ex \in {"multi", "minimal", "coords", "location"} =>
        /\ SeveralMatch(doc, 2)
            => out.country \in FromAnchor(doc.crumbs[AnchorAt(doc, 2)])
        /\ SeveralMatch(doc, 3)
            => out.city \in FromAnchor(doc.crumbs[AnchorAt(doc, 3)])

-----------------------------------------------------------------------------
(* Properties of the structured-data blocks *)

\* the embedUrl values of the blocks that parse
EmbedsInBlocks(ld) ==
    {ld[i].embedUrl : i \in {j \in DOMAIN ld : ld[j].parses /\ ld[j].embedUrl # NoKey}}

\* the title is left to the structured data: no <title> text, no h1 text
NameDecides(d) ==
    /\ d.titleTag.text = ""
    /\ \A i \in DOMAIN d.heads : d.heads[i].text = ""

\* C27 (malformed structured-data blocks are skipped): a block that does
\* not parse is skipped without error and every other block, before and
\* after it, is still traversed, for the URL fields and for the name lookup.
C27_MalformedSkipped ==
    (doc.kind = "titles" /\ out.ex \in {"multi", "minimal", "info"}) =>
        /\ EmbedsInBlocks(doc.ld) # {} => out.embedUrl \in EmbedsInBlocks(doc.ld)
        /\ (out.ex = "info" /\ NameDecides(doc) /\ NameInBlocks(doc.ld) # "")
            => out.title = NameInBlocks(doc.ld)

-----------------------------------------------------------------------------
(* The script pattern scans: crawler_with_coords.py extract_minimal_with_coords,
   save_results.py extract_openstreetmap_coordinates and extract_coordinates.
   A page is a sequence of inline scripts, each holding one fragment of text.
   A captured value is written [as |-> role, of |-> i]: what the text of
   script i means by it (a latitude, a longitude, a zoom level, the id of the
   map element), so that a binding can be compared with the capture. *)

MaxScriptTexts == 2

\* '{"lat": 16.01, "lng": 108.01, "active": true}', '{"lat": .., "lng": ..}',
\* '{"lng": .., "lat": ..}', the same two with escaped quotes (\"lat\"),
\* 'var lat = .., lng = ..', '{"latitude": .., "longitude": ..}' plain and
\* escaped, 'L.map('map', {center: [lat, lon], zoom: 13})',
\* 'map.setView([lat, lon], 13)', '{"lat": .., "lon": ..}',
\* '"https://www.openstreetmap.org/?lat=..&lon=.."',
\* 'new google.maps.LatLng(lat, lon)'
Fragments ==
    {"active", "latlng", "lnglat", "esc_latlng", "esc_lnglat", "js",
     "latitude", "esc_latitude", "lmap", "setview", "latlon", "osmurl", "google"}

ScriptPages ==
    {[kind |-> "scripts", scripts |-> s] : s \in SeqsUpTo(Fragments, MaxScriptTexts)}

Val(role, i) == [as |-> role, of |-> i]

NoVal == Val("none", 0)

\* a tuple of two captured groups stored as one value
PairVal(i) == Val("pair", i)

Match(idx, groups) == [list |-> "osm", idx |-> idx, groups |-> groups]

\* a match of a pattern of the google_patterns list
GoogleMatch(idx, groups) == [list |-> "google", idx |-> idx, groups |-> groups]

LatLon == <<"lat", "lon">>

LonLat == <<"lon", "lat">>

\* re.search of each pattern of coord_patterns, in list order: the patterns
\* (by their index in the list) that match the fragment, with their groups
CoordMatches(frag) ==
    CASE frag = "active"       -> <<Match(0, LatLon), Match(1, LatLon)>>
      [] frag = "latlng"       -> <<Match(1, LatLon)>>
      [] frag = "lnglat"       -> <<Match(2, LonLat)>>
      [] frag = "esc_latlng"   -> <<Match(3, LatLon)>>
      [] frag = "esc_lnglat"   -> <<Match(4, LonLat)>>
      [] frag = "js"           -> <<Match(5, LatLon)>>
      [] frag = "latitude"     -> <<Match(6, LatLon)>>
      [] frag = "esc_latitude" -> <<Match(7, LatLon)>>
      [] OTHER                 -> << >>

\* the patterns whose first group is the longitude
LngFirst == {2, 4}

NoBinding == [lat |-> NoVal, lon |-> NoVal, zoom |-> NoVal, source |-> "none", bound |-> << >>]

Bound(field, v) == [field |-> field, val |-> v]

\* the groups of the first matching pattern of a script, bound by position
CoordBind(m, i) ==
    LET lat == IF m.idx \in LngFirst THEN Val(m.groups[2], i) ELSE Val(m.groups[1], i)
        lng == IF m.idx \in LngFirst THEN Val(m.groups[1], i) ELSE Val(m.groups[2], i)
    IN  [lat |-> lat, lon |-> lng, zoom |-> NoVal, source |-> "script",
         bound |-> <<Bound("latitude", lat), Bound("longitude", lng)>>]

\* the first script that matches a pattern decides
RECURSIVE CoordsScan(_, _)
CoordsScan(scripts, i) ==
    IF i > Len(scripts) THEN NoBinding
    ELSE IF CoordMatches(scripts[i]) = << >> THEN CoordsScan(scripts, i + 1)
    ELSE CoordBind(CoordMatches(scripts[i])[1], i)

\* re.findall of each pattern of the osm_patterns list of
\* extract_openstreetmap_coordinates (re.IGNORECASE | re.DOTALL)
OsmMatches(frag) ==
    CASE frag \in {"active", "latlng", "lnglat"}
                           -> <<Match(7, <<"lat">>)>>
      [] frag = "js"       -> <<Match(10, <<"lat">>)>>
      [] frag = "latitude" -> <<Match(5, <<"lat">>), Match(6, <<"lon">>)>>
      [] frag = "lmap"     -> <<Match(0, <<"id", "lat", "lon">>), Match(2, LatLon)>>
      [] frag = "setview"  -> <<Match(1, <<"lat", "lon", "zoom">>)>>
      [] frag = "latlon"   -> <<Match(7, <<"lat">>), Match(8, <<"lon">>)>>
      [] frag = "osmurl"   -> <<Match(3, LatLon), Match(10, <<"lat">>), Match(11, <<"lon">>)>>
      [] OTHER             -> << >>

\* the patterns whose text contains 'center' or 'setView'
OsmCenterPatterns == {0, 1, 2, 9, 16}

\* the other patterns whose text contains 'lat': the two URL patterns
\* (lat=...lon=) are among them, so the branch for 'openstreetmap.org' is
\* never taken
OsmLatPatterns == {3, 4, 5, 7, 10, 12, 14, 17, 19}

NoOsmData ==
    [center_lat |-> NoVal, center_lon |-> NoVal, zoom |-> NoVal,
     lat |-> NoVal, lon |-> NoVal, bound |-> << >>]

\* findall gives a string for a pattern with one group, a tuple otherwise
Found(m, i) == IF Len(m.groups) = 1 THEN Val(m.groups[1], i) ELSE PairVal(i)

\* the dispatch on the text of the pattern, one match
OsmBind(data, m, i) ==
    LET n == Len(m.groups)
        g1 == Val(m.groups[1], i)
        g2 == Val(m.groups[2], i)
    IN  IF m.idx \in OsmCenterPatterns
        THEN IF n = 2
             THEN [data EXCEPT !.center_lat = g1, !.center_lon = g2,
                               !.bound = @ \o <<Bound("latitude", g1), Bound("longitude", g2)>>]
             ELSE IF n = 3
             THEN [data EXCEPT !.center_lat = g1, !.center_lon = g2,
                               !.zoom = Val(m.groups[3], i),
                               !.bound = @ \o <<Bound("latitude", g1), Bound("longitude", g2)>>]
             ELSE data
        ELSE IF m.idx \in OsmLatPatterns
        THEN [data EXCEPT !.lat = Found(m, i),
                          !.bound = @ \o <<Bound("latitude", Found(m, i))>>]
        ELSE [data EXCEPT !.lon = Found(m, i),
                          !.bound = @ \o <<Bound("longitude", Found(m, i))>>]

\* every script, every pattern in list order, every match: a later match
\* overwrites what an earlier one stored
RECURSIVE OsmScan(_, _, _, _)
OsmScan(scripts, i, k, data) ==
    IF i > Len(scripts) THEN data
    ELSE IF k > Len(OsmMatches(scripts[i])) THEN OsmScan(scripts, i + 1, 1, data)
    ELSE OsmScan(scripts, i, k + 1, OsmBind(data, OsmMatches(scripts[i])[k], i))

\* the coordinate chosen from osm_data: the centre, then lat and lon
OsmChoice(data) ==
    IF data.center_lat # NoVal /\ data.center_lon # NoVal
    THEN [lat |-> data.center_lat, lon |-> data.center_lon, zoom |-> data.zoom,
          source |-> "openstreetmap_center", bound |-> data.bound]
    ELSE IF data.lat # NoVal /\ data.lon # NoVal
    THEN [lat |-> data.lat, lon |-> data.lon, zoom |-> NoVal,
          source |-> "openstreetmap_data", bound |-> data.bound]
    ELSE [NoBinding EXCEPT !.bound = data.bound]

\* re.findall of the osm_patterns and then of the google_patterns of
\* extract_coordinates (no flags)
InfoMatches(frag) ==
    CASE frag \in {"active", "latlng", "lnglat"}
                           -> <<Match(0, <<"lat">>)>>
      [] frag = "latitude" -> <<Match(2, <<"lat">>), Match(3, <<"lon">>)>>
      [] frag = "lmap"     -> <<Match(4, LatLon), Match(5, <<"zoom">>),
                                GoogleMatch(2, <<"zoom">>)>>
      [] frag = "latlon"   -> <<Match(0, <<"lat">>), Match(1, <<"lon">>)>>
      [] frag = "google"   -> <<GoogleMatch(0, LatLon)>>
      [] OTHER             -> << >>

NoOsmInfo ==
    [center_lat |-> NoVal, center_lon |-> NoVal, zoom |-> NoVal,
     lat |-> NoVal, lon |-> NoVal,
     google_lat |-> NoVal, google_lon |-> NoVal, google_zoom |-> NoVal,
     bound |-> << >>]

\* the dispatch of extract_coordinates; of its branches only those a
\* pattern of its two lists can take
InfoBind(info, m, i) ==
    LET n == Len(m.groups)
        g1 == Val(m.groups[1], i)
        g2 == Val(m.groups[2], i)
    IN  IF m.list = "google"
        THEN IF m.idx \in {0, 1}
             THEN IF n = 2
                  THEN [info EXCEPT !.google_lat = g1, !.google_lon = g2,
                                    !.bound = @ \o <<Bound("latitude", g1), Bound("longitude", g2)>>]
                  ELSE info
             ELSE [info EXCEPT !.google_zoom = Found(m, i)]
        ELSE IF m.idx = 4
        THEN IF n = 2
             THEN [info EXCEPT !.center_lat = g1, !.center_lon = g2,
                               !.bound = @ \o <<Bound("latitude", g1), Bound("longitude", g2)>>]
             ELSE info
        ELSE IF m.idx \in {0, 2}
        THEN [info EXCEPT !.lat = Found(m, i),
                          !.bound = @ \o <<Bound("latitude", Found(m, i))>>]
        ELSE IF m.idx \in {1, 3}
        THEN [info EXCEPT !.lon = Found(m, i),
                          !.bound = @ \o <<Bound("longitude", Found(m, i))>>]
        ELSE [info EXCEPT !.zoom = Found(m, i)]

RECURSIVE InfoScan(_, _, _, _)
InfoScan(scripts, i, k, info) ==
    IF i > Len(scripts) THEN info
    ELSE IF k > Len(InfoMatches(scripts[i])) THEN InfoScan(scripts, i + 1, 1, info)
    ELSE InfoScan(scripts, i, k + 1, InfoBind(info, InfoMatches(scripts[i])[k], i))

\* the coordinate chosen from osm_info: lat and lon, then the centre, then
\* the Google Maps position
InfoChoice(info) ==
    IF info.lat # NoVal /\ info.lon # NoVal
    THEN [lat |-> info.lat, lon |-> info.lon, zoom |-> info.zoom,
          source |-> "openstreetmap_data", bound |-> info.bound]
    ELSE IF info.center_lat # NoVal /\ info.center_lon # NoVal
    THEN [lat |-> info.center_lat, lon |-> info.center_lon, zoom |-> info.zoom,
          source |-> "openstreetmap_center", bound |-> info.bound]
    ELSE IF info.google_lat # NoVal /\ info.google_lon # NoVal
    THEN [lat |-> info.google_lat, lon |-> info.google_lon, zoom |-> info.google_zoom,
          source |-> "google_maps", bound |-> info.bound]
    ELSE [NoBinding EXCEPT !.bound = info.bound]

Scanned(fn, binding) ==
    /\ doc.kind = "scripts"
    /\ out' = [ex |-> "scan", fn |-> fn, lat |-> binding.lat, lon |-> binding.lon,
               zoom |-> binding.zoom, source |-> binding.source, bound |-> binding.bound]
    /\ UNCHANGED <<files, last, left, writers, doc>>

ScanMinimalWithCoords == Scanned("extract_minimal_with_coords", CoordsScan(doc.scripts, 1))

ScanOpenStreetMap ==
    Scanned("extract_openstreetmap_coordinates",
            OsmChoice(OsmScan(doc.scripts, 1, 1, NoOsmData)))

ScanCoordinates ==
    Scanned("extract_coordinates", InfoChoice(InfoScan(doc.scripts, 1, 1, NoOsmInfo)))

InitScan ==
    /\ files = << >>
    /\ last = NoStep
    /\ left = 0
    /\ writers = NoWriters
    /\ doc \in ScriptPages
    /\ out = NoOut

NextScan == ScanMinimalWithCoords \/ ScanOpenStreetMap \/ ScanCoordinates

SpecScan == InitScan /\ [][NextScan]_vars

-----------------------------------------------------------------------------
(* Properties of the pattern scans *)

\* the value was captured in the role of the field it is stored in
OwnRole(b) ==
    /\ b.field = "latitude" => b.val.as = "lat"
    /\ b.field = "longitude" => b.val.as = "lon"

\* C28 (capture-group binding): whatever pattern matched, the value it binds
\* to the latitude is the one it captured as latitude and the value it binds
\* to the longitude is the one it captured as longitude, whether the pattern
\* lists lat first, lng first, or captures the map element id or the zoom
\* as well.
C28_GroupBinding ==
    out.ex = "scan" => \A k \in DOMAIN out.bound : OwnRole(out.bound[k])

-----------------------------------------------------------------------------
(* Properties of the coordinate tiers *)

\* the tile, marker, script, structured-data and meta tiers find nothing
EarlierTiersEmpty(g) ==
    /\ g.tile = NoTile
        \/ (g.marker = NoMarker /\ ~InBox(tile_to_lat_lon(2 * g.tile.x, 2 * g.tile.y)))
    /\ g.center = NoCoord
    /\ ScriptLatLon(g) = NoCoord
    /\ g.jsonld.at = NoCoord
    /\ MetaCoord(g) = NoCoord

\* C29 (coordinate fall-through): a tier that finds nothing, such as a map
\* container with a marker but no tile image, does not keep the later tiers
\* from running: when the earlier tiers find nothing, the coordinate of the
\* map iframe's lat= and lon= is returned if there is one, and the
\* coordinate is absent if there is none.
C29_FallThrough ==
    (out.ex = "resolver" /\ EarlierTiersEmpty(doc.geo)) =>
        out.coordinates = IF doc.geo.iframe # NoCoord
                          THEN Coordinates(doc.geo.iframe, "openstreetmap_iframe")
                          ELSE NoCoordinates

-----------------------------------------------------------------------------
(* Properties of the stored records over a batch *)

IsPrefix(a, b) == Len(a) <= Len(b) /\ SubSeq(b, 1, Len(a)) = a

\* the stored entries of a file that have a URL, in their order
WithUrl(p) == PruneList(p.items)

====
